---- MODULE Spec2Model ----
(***************************************************************************)
(* A model of three parts of hackc:                                        *)
(*   - ir_core/newtype.rs : the one-word ValueId encoding                  *)
(*   - hhbc/id.rs         : FunctionName equality, hashing and ordering    *)
(*   - bc_to_ir / ir_to_bc: the whole-unit converters                      *)
(* Each part has its own specification over the shared variable list; the  *)
(* variables of the other parts stay at their idle values.                 *)
(***************************************************************************)
EXTENDS Integers, Sequences, FiniteSets, TLC

VARIABLES
    vPc,        \* ValueId: "start" | "built" | "panic"
    vKind,      \* ValueId: constructor to be applied: "instr" | "constant" | "none"
    vIdx,       \* ValueId: the u32 index handed to the constructor
    vRaw,       \* ValueId: the raw i32 word of the constructed ValueId
    interner,   \* names: the global interner's table; a StringId is an index into it
    lastCmp,    \* names: the last comparison made, or NoCmp
    hset,       \* names: a HashSet<FunctionName>, as the set of handles it holds
    hIns,       \* names: the handles handed to hset.insert so far
    bset,       \* names: a BTreeSet<FunctionName>, as its handles in iteration order
    bIns,       \* names: the handles handed to bset.insert so far
    unit,       \* converter: the persisted unit handed to bc_to_ir
    cPc,        \* converter: the statement the conversion is at
    cI,         \* converter: how many items the current loop has converted
    ir,         \* converter: the ir::Unit under construction, then consumed
    adata_lookup, \* converter: bc_to_ir's UnitState.adata_lookup
    builder,    \* converter: ir_to_bc's UnitBuilder
    out,        \* converter: the hhbc::Unit ir_to_bc builds after finish()
    log,        \* converter: the conversions made so far, in order
    tvPc,       \* constants: "bc" | "ir" | "done" | "failed"
    tvIn,       \* constants: the hhbc::TypedValue handed to the forward conversion
    tvStrings,  \* constants: the IR unit's StringInterner table
    tvIr,       \* constants: the ir::TypedValue handed to convert_typed_value
    tvOut,      \* constants: what convert_typed_value returned, or Panic
    scCache,    \* StringCache: the DashMap, as the entries inserted, by id
    scLock,     \* StringCache: which thread holds each shard's write lock, or 0
    scAlloc,    \* StringCache: how many slices the arena has handed out
    scWrites,   \* StringCache: every write made to the map, in order
    tPc,        \* StringCache: each thread's position in lookup_ffi_str
    tId,        \* StringCache: the id each thread's call is for
    tRet,       \* StringCache: the Str each thread's call returned
    lexToks,    \* decoder: the Lexer's token stream
    lexPos,     \* decoder: how many tokens the Lexer has handed out
    decl_map,   \* decoder: the DeclMap, local name -> slot
    dKind,      \* decoder: the operand type assemble_imm is called for
    dPc,        \* decoder: "start" | "loop" | "done"
    dOut,       \* decoder: what assemble_imm returned
    dItems,     \* decoder: the Vec a list decoder has pushed its items to
    debug_assertions, \* decoder: whether the build checks debug_assert!
    aPc,        \* AdataId: "id" | "formatted" | "round_trip", or "text" | "parsed"
    aId,        \* AdataId: the id that is formatted
    aText,      \* AdataId: the text handed to AdataId::parse
    aOut        \* AdataId: what AdataId::parse returned

vidVars == <<vPc, vKind, vIdx, vRaw>>

nameVars == <<interner, lastCmp, hset, hIns, bset, bIns>>

convVars == <<unit, cPc, cI, ir, adata_lookup, builder, out, log>>

tvVars == <<tvPc, tvIn, tvStrings, tvIr, tvOut>>

cacheVars == <<scCache, scLock, scAlloc, scWrites, tPc, tId, tRet>>

decVars == <<lexToks, lexPos, decl_map, dKind, dPc, dOut, dItems, debug_assertions>>

adataVars == <<aPc, aId, aText, aOut>>

vars == <<vPc, vKind, vIdx, vRaw, interner, lastCmp, hset, hIns, bset, bIns,
          unit, cPc, cI, ir, adata_lookup, builder, out, log,
          tvPc, tvIn, tvStrings, tvIr, tvOut,
          scCache, scLock, scAlloc, scWrites, tPc, tId, tRet,
          lexToks, lexPos, decl_map, dKind, dPc, dOut, dItems, debug_assertions,
          aPc, aId, aText, aOut>>

(***************************************************************************)
(* 32-bit words.  A u32 is kept as two 16-bit halves, an i32 as a signed   *)
(* integer in -2^31 .. 2^31-1.                                             *)
(***************************************************************************)

\* How many values on each side of a boundary of the u32 range are sampled.
Edge == 2

Half == 65536

HalfSign == 32768

HiSamples ==
    (0 .. Edge) \cup ((HalfSign - 1 - Edge) .. (HalfSign + Edge))
                \cup ((Half - 1 - Edge) .. (Half - 1))

LoSamples == (0 .. Edge) \cup ((Half - 1 - Edge) .. (Half - 1))

U32Samples == { [hi |-> h, lo |-> l] : h \in HiSamples, l \in LoSamples }

\* u32::MAX
U32Max == [hi |-> Half - 1, lo |-> Half - 1]

\* `x as i32` for a u32 x: the same 32 bits read as two's complement.
AsI32(u) ==
    IF u.hi < HalfSign THEN u.hi * Half + u.lo
                       ELSE (u.hi - Half) * Half + u.lo

\* `x as u32` for an i32 x: the same 32 bits read as unsigned.
AsU32(r) == [hi |-> (r \div Half) % Half, lo |-> r % Half]

\* `!x` on an i32: flips all 32 bits.
BitNot(r) == (-1) - r

\* i32::MIN
I32Min == (0 - HalfSign) * Half

Some(x) == <<"Some", x>>

None == <<"None">>

(***************************************************************************)
(* The idle values of the parts a specification does not run               *)
(***************************************************************************)

NoCmp == [a |-> 0, b |-> 0, eq |-> FALSE, ord |-> "Equal"]

NameIdle ==
    /\ interner = <<>> /\ lastCmp = NoCmp
    /\ hset = {} /\ hIns = {} /\ bset = <<>> /\ bIns = {}

ConvIdle ==
    /\ unit = <<>> /\ cPc = "idle" /\ cI = 0 /\ ir = <<>>
    /\ adata_lookup = <<>> /\ builder = <<>> /\ out = <<>> /\ log = <<>>

TvIdle ==
    /\ tvPc = "idle" /\ tvIn = <<>> /\ tvStrings = <<>> /\ tvIr = <<>> /\ tvOut = <<>>

CacheIdle ==
    /\ scCache = <<>> /\ scLock = <<>> /\ scAlloc = 0 /\ scWrites = <<>>
    /\ tPc = <<>> /\ tId = <<>> /\ tRet = <<>>

DecIdle ==
    /\ lexToks = <<>> /\ lexPos = 0 /\ decl_map = <<>> /\ dKind = "idle"
    /\ dPc = "idle" /\ dOut = <<>> /\ dItems = <<>> /\ debug_assertions = FALSE

AdataIdle == aPc = "idle" /\ aId = U32Max /\ aText = <<>> /\ aOut = <<>>

(***************************************************************************)
(* ValueId (ir_core/newtype.rs)                                            *)
(***************************************************************************)

\* InstrId::NONE and ConstantId::NONE, the reserved sentinels of newtype_int!
InstrId_NONE == U32Max

ConstantId_NONE == U32Max

\* ValueId::NONE
NONE == I32Min

from_instr(idx) == AsI32(idx)

from_constant(idx) == BitNot(AsI32(idx))

none == NONE

full(raw) ==
    IF raw >= 0 THEN <<"Instr", AsU32(raw)>>
    ELSE IF raw = NONE THEN <<"None">>
    ELSE <<"Constant", AsU32(BitNot(raw))>>

constant(raw) ==
    IF raw >= 0 \/ raw = NONE THEN None ELSE Some(AsU32(BitNot(raw)))

instr(raw) == IF raw >= 0 THEN Some(AsU32(raw)) ELSE None

is_constant(raw) == raw < 0 /\ raw # NONE

is_instr(raw) == raw >= 0

is_none(raw) == raw = NONE

VidIdle == vPc = "idle" /\ vKind = "none" /\ vIdx = U32Max /\ vRaw = 0

VidInit ==
    /\ vPc = "start"
    /\ vKind \in {"instr", "constant", "none"}
    /\ vIdx \in U32Samples
    /\ vRaw = 0
    /\ NameIdle /\ ConvIdle
    /\ TvIdle /\ CacheIdle /\ DecIdle /\ AdataIdle

\* ValueId::from_instr, with its assert!(idx != InstrId::NONE)
FromInstr ==
    /\ vPc = "start" /\ vKind = "instr"
    /\ IF vIdx = InstrId_NONE
         THEN vPc' = "panic" /\ vRaw' = vRaw
         ELSE vPc' = "built" /\ vRaw' = from_instr(vIdx)
    /\ UNCHANGED <<vKind, vIdx>>
    /\ UNCHANGED <<nameVars, convVars, tvVars, cacheVars, decVars, adataVars>>

\* ValueId::from_constant, with its assert!(idx != ConstantId::NONE)
FromConstant ==
    /\ vPc = "start" /\ vKind = "constant"
    /\ IF vIdx = ConstantId_NONE
         THEN vPc' = "panic" /\ vRaw' = vRaw
         ELSE vPc' = "built" /\ vRaw' = from_constant(vIdx)
    /\ UNCHANGED <<vKind, vIdx>>
    /\ UNCHANGED <<nameVars, convVars, tvVars, cacheVars, decVars, adataVars>>

\* ValueId::none
MakeNone ==
    /\ vPc = "start" /\ vKind = "none"
    /\ vPc' = "built" /\ vRaw' = none
    /\ UNCHANGED <<vKind, vIdx>>
    /\ UNCHANGED <<nameVars, convVars, tvVars, cacheVars, decVars, adataVars>>

VidNext == FromInstr \/ FromConstant \/ MakeNone

SpecValueId == VidInit /\ [][VidNext]_vars

(***************************************************************************)
(* Claims about ValueId                                                    *)
(***************************************************************************)

VidBuilt(kind) == vPc = "built" /\ vKind = kind

\* The 32-bit bitwise complement of a u32, half by half.
U32Complement(u) == [hi |-> (Half - 1) - u.hi, lo |-> (Half - 1) - u.lo]

\* C1: for every u32 index i other than the sentinel, from_instr(i) stores a
\* non-negative word, instr() gives back Some(i) and is_instr() holds.
C1_FromInstrRoundTrip ==
    VidBuilt("instr") =>
        /\ vRaw >= 0
        /\ instr(vRaw) = Some(vIdx)
        /\ is_instr(vRaw)

\* C2: for every u32 index c other than the sentinel, from_constant(c) decodes
\* back: constant() is Some(c) and full() is the Constant variant carrying c.
C2_FromConstantRoundTrip ==
    VidBuilt("constant") =>
        /\ constant(vRaw) = Some(vIdx)
        /\ full(vRaw) = <<"Constant", vIdx>>

\* C3: the word stored by from_constant(c) is the 32-bit complement of c, is
\* negative, is not i32::MIN, and is neither is_none() nor is_instr().
C3_ConstantWordNegative ==
    VidBuilt("constant") =>
        /\ AsU32(vRaw) = U32Complement(vIdx)
        /\ vRaw < 0
        /\ vRaw # I32Min
        /\ ~is_none(vRaw)
        /\ ~is_instr(vRaw)

KindOf(raw) ==
    { k \in {"instr", "constant", "none"} :
        \/ k = "instr" /\ is_instr(raw)
        \/ k = "constant" /\ is_constant(raw)
        \/ k = "none" /\ is_none(raw) }

FullKind(raw) ==
    CASE full(raw)[1] = "Instr" -> "instr"
      [] full(raw)[1] = "Constant" -> "constant"
      [] OTHER -> "none"

\* C4: for a ValueId built by one of the three constructors exactly one of
\* is_instr(), is_constant(), is_none() holds and it is the constructor's kind;
\* instr() is Some exactly when is_instr(), constant() is Some exactly when
\* is_constant(), and full() returns the variant of that kind.
C4_ExactlyOneKind ==
    vPc = "built" =>
        /\ KindOf(vRaw) = {vKind}
        /\ (instr(vRaw) # None) <=> is_instr(vRaw)
        /\ (constant(vRaw) # None) <=> is_constant(vRaw)
        /\ FullKind(vRaw) = vKind

(***************************************************************************)
(* FunctionName (hhbc/id.rs)                                               *)
(***************************************************************************)

\* The most names the interner holds in a run.
MaxInterned == 3

\* Texts, as their bytes:
\* foo Foo FOO foo2 Bar bar, a@ and a` (0x40 and 0x60 differ in one bit, as
\* letter cases do, but are no letters), and two-byte UTF-8 for A-umlaut and
\* a-umlaut (their second bytes 0x84 and 0xA4 differ in that bit too).
NamePool ==
    { <<102, 111, 111>>, <<70, 111, 111>>, <<70, 79, 79>>,
      <<102, 111, 111, 50>>, <<66, 97, 114>>, <<98, 97, 114>>,
      <<97, 64>>, <<97, 96>>, <<195, 132>>, <<195, 164>> }

Handles == 1 .. Len(interner)

\* crate::intern: the handle of an interned text, or the next fresh one
InternedAt(tbl, s) == { i \in 1 .. Len(tbl) : tbl[i] = s }

intern_table(tbl, s) == IF InternedAt(tbl, s) # {} THEN tbl ELSE Append(tbl, s)

\* FunctionName::as_str
as_str(id) == interner[id]

\* u8::to_ascii_lowercase
to_ascii_lowercase(b) == IF 65 <= b /\ b <= 90 THEN b + 32 ELSE b

\* str::eq_ignore_ascii_case
eq_ignore_ascii_case(s, t) ==
    /\ Len(s) = Len(t)
    /\ \A i \in 1 .. Len(s) : to_ascii_lowercase(s[i]) = to_ascii_lowercase(t[i])

\* Equality as #[derive(PartialEq)] would give it: by handle.
FunctionName_eq_derived(a, b) == a = b

\* impl PartialEq for FunctionName
FunctionName_eq(a, b) == eq_ignore_ascii_case(as_str(a), as_str(b))

\* StringId's Ord: by the raw handle
StringId_cmp(a, b) ==
    IF a < b THEN "Less" ELSE IF a = b THEN "Equal" ELSE "Greater"

\* impl Ord for FunctionName
FunctionName_cmp(a, b) ==
    IF FunctionName_eq(a, b) THEN "Equal" ELSE StringId_cmp(a, b)

\* StringId's Hash: what it feeds the hasher is the raw handle
StringId_hash(id) == id

\* #[derive(Hash)] on FunctionName(StringId)
FunctionName_hash(a) == StringId_hash(a)

\* FunctionName::intern
Intern(s) ==
    /\ Len(intern_table(interner, s)) <= MaxInterned
    /\ interner' = intern_table(interner, s)
    /\ UNCHANGED <<lastCmp, hset, hIns, bset, bIns>>
    /\ UNCHANGED <<vidVars, convVars, tvVars, cacheVars, decVars, adataVars>>

\* id1 == id2 and id1.cmp(&id2) on two names
CompareNames(a, b) ==
    /\ lastCmp' = [a |-> a, b |-> b, eq |-> FunctionName_eq(a, b),
                   ord |-> FunctionName_cmp(a, b)]
    /\ UNCHANGED <<interner, hset, hIns, bset, bIns>>
    /\ UNCHANGED <<vidVars, convVars, tvVars, cacheVars, decVars, adataVars>>

\* HashSet::insert: a name is not added when the set holds one with the same
\* hash that compares equal
HashInsert(n) ==
    /\ hIns' = hIns \cup {n}
    /\ hset' = IF \E m \in hset :
                       FunctionName_hash(m) = FunctionName_hash(n) /\ FunctionName_eq(m, n)
                 THEN hset ELSE hset \cup {n}
    /\ UNCHANGED <<interner, lastCmp, bset, bIns>>
    /\ UNCHANGED <<vidVars, convVars, tvVars, cacheVars, decVars, adataVars>>

\* The search of one B-tree node: the first position whose key is not below n
SearchNode(keys, n) ==
    LET stop == { i \in 1 .. Len(keys) : FunctionName_cmp(n, keys[i]) # "Greater" }
    IN  IF stop = {} THEN [found |-> FALSE, idx |-> Len(keys) + 1]
        ELSE LET i == CHOOSE i \in stop : \A j \in stop : i <= j
             IN  [found |-> FunctionName_cmp(n, keys[i]) = "Equal", idx |-> i]

InsertAt(keys, i, n) ==
    SubSeq(keys, 1, i - 1) \o <<n>> \o SubSeq(keys, i, Len(keys))

\* BTreeSet::insert
BTreeInsert(n) ==
    /\ bIns' = bIns \cup {n}
    /\ LET r == SearchNode(bset, n)
       IN  bset' = IF r.found THEN bset ELSE InsertAt(bset, r.idx, n)
    /\ UNCHANGED <<interner, lastCmp, hset, hIns>>
    /\ UNCHANGED <<vidVars, convVars, tvVars, cacheVars, decVars, adataVars>>

NameInit ==
    /\ NameIdle /\ VidIdle /\ ConvIdle
    /\ TvIdle /\ CacheIdle /\ DecIdle /\ AdataIdle

EqNext ==
    \/ \E s \in NamePool : Intern(s)
    \/ \E a \in Handles, b \in Handles : CompareNames(a, b)

HashNext ==
    \/ \E s \in NamePool : Intern(s)
    \/ \E n \in Handles : HashInsert(n)

OrdNext ==
    \/ \E s \in NamePool : Intern(s)
    \/ \E n \in Handles : BTreeInsert(n)

SpecEq == NameInit /\ [][EqNext]_vars

SpecHash == NameInit /\ [][HashNext]_vars

SpecOrd == NameInit /\ [][OrdNext]_vars

(***************************************************************************)
(* The persisted unit (hhbc/unit.rs) and the units the converters are run  *)
(* on                                                                      *)
(***************************************************************************)

\* The most classes and the most free functions of a unit.
MaxClasses == 2

MaxFuncs == 2

\* How many methods a class may have.
MethodCounts == {0, 2}

Just(x) == <<"Just", x>>

Nothing == <<"Nothing">>

IntV(n) == <<"Int", n>>

\* Constant pools: empty, two distinct arrays, the same array twice.
AdataPools ==
    { <<>>,
      << <<"Vec", <<IntV(1)>> >>, <<"Vec", <<IntV(2), IntV(1)>> >> >>,
      << <<"Vec", <<IntV(1)>> >>, <<"Vec", <<IntV(1)>> >> >> }

\* The names of the i-th class, its property, its j-th method and the i-th
\* function: Ci, pi, mij, fi in ASCII.
CName(i) == <<67, 48 + i>>

PName(i) == <<112, 48 + i>>

MName(i, j) == <<109, 48 + i, 48 + j>>

FName(i) == <<102, 48 + i>>

\* hhbc::Class, as far as the unit converters look into it
MkClass(i, n) ==
    [name |-> CName(i), props |-> << [name |-> PName(i)] >>,
     methods |-> [j \in 1 .. n |-> [name |-> MName(i, j)]]]

\* hhbc::Function: its name and the AdataIds its body refers to
MkFunction(i, refs) == [name |-> FName(i), adata |-> refs]

ClassShapes == UNION { [1 .. n -> MethodCounts] : n \in 0 .. MaxClasses }

RefChoices(pool) == {<<>>} \cup { <<a>> : a \in 0 .. Len(pool) - 1 }

FuncShapes(pool) == UNION { [1 .. n -> RefChoices(pool)] : n \in 0 .. MaxFuncs }

ModM == <<77>>

\* The remaining fields of hhbc::Unit, in four combinations.
FrameEmpty ==
    [modules |-> <<>>, typedefs |-> <<>>, file_attributes |-> <<>>,
     module_use |-> Nothing,
     symbol_refs |-> [classes |-> {}, constants |-> {}, functions |-> {},
                      includes |-> {}],
     constants |-> <<>>, fatal |-> Nothing,
     missing_symbols |-> <<>>, error_symbols |-> <<>>,
     valid_utf8 |-> TRUE, invalid_utf8_offset |-> 0]

FramePlain ==
    [modules |-> << [attributes |-> <<>>, name |-> ModM, span |-> <<1, 4>>,
                     doc_comment |-> Nothing, exports |-> Nothing,
                     imports |-> Nothing] >>,
     typedefs |-> << [name |-> <<84>>] >>,
     file_attributes |-> << [name |-> <<65>>, arguments |-> <<IntV(7)>>] >>,
     module_use |-> Nothing,
     symbol_refs |-> [classes |-> {<<67, 49>>}, constants |-> {},
                      functions |-> {<<102, 49>>}, includes |-> {}],
     constants |-> << [name |-> <<75, 49>>, value |-> Just(IntV(1))] >>,
     fatal |-> Just([op |-> "Runtime", loc |-> <<2, 3>>, message |-> <<111, 104>>]),
     missing_symbols |-> <<>>, error_symbols |-> <<>>,
     valid_utf8 |-> TRUE, invalid_utf8_offset |-> 0]

FrameFull ==
    [modules |-> << [attributes |-> << [name |-> <<65>>, arguments |-> <<>>] >>,
                     name |-> ModM, span |-> <<1, 4>>,
                     doc_comment |-> Just(<<100>>),
                     exports |-> Just(<< <<101>> >>),
                     imports |-> Just(<< <<105>> >>)] >>,
     typedefs |-> << [name |-> <<84>>], [name |-> <<85>>] >>,
     file_attributes |-> <<>>,
     module_use |-> Just(ModM),
     symbol_refs |-> [classes |-> {}, constants |-> {<<75, 49>>},
                      functions |-> {}, includes |-> {<<105>>}],
     constants |-> << [name |-> <<75, 50>>, value |-> Just(IntV(2))],
                      [name |-> <<75, 49>>, value |-> Nothing] >>,
     fatal |-> Just([op |-> "Parse", loc |-> <<1, 1>>, message |-> <<>>]),
     missing_symbols |-> << <<120>> >>, error_symbols |-> << <<121>> >>,
     valid_utf8 |-> FALSE, invalid_utf8_offset |-> 3]

FrameOmit ==
    [FramePlain EXCEPT
        !.fatal = Just([op |-> "RuntimeOmitFrame", loc |-> <<5, 6>>,
                        message |-> <<120>>]),
        !.module_use = Just(ModM),
        !.constants = <<>>]

Frames == {FrameEmpty, FramePlain, FrameFull, FrameOmit}

\* hhbc::Unit
MkUnit(pool, cs, fs, fr) ==
    [adata |-> pool,
     functions |-> [i \in 1 .. Len(fs) |-> MkFunction(i, fs[i])],
     classes |-> [i \in 1 .. Len(cs) |-> MkClass(i, cs[i])],
     modules |-> fr.modules, typedefs |-> fr.typedefs,
     file_attributes |-> fr.file_attributes, module_use |-> fr.module_use,
     symbol_refs |-> fr.symbol_refs, constants |-> fr.constants,
     fatal |-> fr.fatal, missing_symbols |-> fr.missing_symbols,
     error_symbols |-> fr.error_symbols, valid_utf8 |-> fr.valid_utf8,
     invalid_utf8_offset |-> fr.invalid_utf8_offset]

Units ==
    UNION { { MkUnit(pool, cs, fs, fr) :
                cs \in ClassShapes, fr \in Frames, fs \in FuncShapes(pool) } :
            pool \in AdataPools }

(***************************************************************************)
(* bc_to_ir (ir/conversions/bc_to_ir/convert.rs)                           *)
(***************************************************************************)

\* StringInterner::intern_bytes over a sequence of texts, in order
RECURSIVE InternAll(_, _)
InternAll(tbl, names) ==
    IF names = <<>> THEN tbl
    ELSE InternAll(intern_table(tbl, Head(names)), Tail(names))

\* The id a text has in a table that holds it
IdOf(tbl, s) == CHOOSE i \in 1 .. Len(tbl) : tbl[i] = s

\* $name::from_hhbc: the IR-domain id of a persisted name
from_hhbc(name, strings) == IdOf(intern_table(strings, name), name)

\* The conversions of hhbc's Maybe to Option and back
MaybeToOption(m) == IF m[1] = "Just" THEN Some(m[2]) ELSE None

OptionToMaybe(o) == IF o[1] = "Some" THEN Just(o[2]) ELSE Nothing

\* The outcome of a conversion that hit a failed expect(), and that of one
\* that produced a record or a list
Panic == <<"Panic">>

Ok(x) == <<"Ok", x>>

IsPanic(r) == r[1] = "Panic"

AnyPanic(xs) == \E i \in 1 .. Len(xs) : IsPanic(xs[i])

Unwrap(xs) == [i \in 1 .. Len(xs) |-> xs[i][2]]

\* collect() over converted items
Collect(xs) == IF AnyPanic(xs) THEN Panic ELSE Ok(Unwrap(xs))

\* hhbc::TypedValue -> ir::ArrayKey: the restricted path of a key position
array_key_to_ir(k, strings) ==
    CASE k[1] = "Int" -> <<"Int", k[2]>>
      [] k[1] = "String" -> <<"String", from_hhbc(k[2], strings)>>
      [] k[1] = "LazyClass" -> <<"LazyClass", from_hhbc(k[2], strings)>>
      [] OTHER -> Panic

\* hhbc::TypedValue -> ir::TypedValue
RECURSIVE tv_to_ir(_, _)
tv_to_ir(tv, strings) ==
    CASE tv[1] = "String" -> <<"String", from_hhbc(tv[2], strings)>>
      [] tv[1] = "LazyClass" -> <<"LazyClass", from_hhbc(tv[2], strings)>>
      [] tv[1] = "Vec" ->
            LET vs == [i \in 1 .. Len(tv[2]) |-> tv_to_ir(tv[2][i], strings)]
            IN  IF AnyPanic(vs) THEN Panic ELSE <<"Vec", vs>>
      [] tv[1] = "Keyset" ->
            LET ks == [i \in 1 .. Len(tv[2]) |-> array_key_to_ir(tv[2][i], strings)]
            IN  IF AnyPanic(ks) THEN Panic ELSE <<"Keyset", ks>>
      [] tv[1] = "Dict" ->
            LET ks == [i \in 1 .. Len(tv[2]) |-> array_key_to_ir(tv[2][i].key, strings)]
                vs == [i \in 1 .. Len(tv[2]) |-> tv_to_ir(tv[2][i].value, strings)]
            IN  IF AnyPanic(ks) \/ AnyPanic(vs) THEN Panic
                ELSE <<"Dict", [i \in 1 .. Len(tv[2]) |-> <<ks[i], vs[i]>>]>>
      [] OTHER -> tv

\* hhbc::Attribute -> ir::Attribute
AttrToIr(a, strings) ==
    [name |-> from_hhbc(a.name, strings),
     arguments |-> [i \in 1 .. Len(a.arguments) |-> tv_to_ir(a.arguments[i], strings)]]

\* hhbc::Module -> ir::Module
ModuleToIr(m, strings) ==
    [attributes |-> [i \in 1 .. Len(m.attributes) |-> AttrToIr(m.attributes[i], strings)],
     name |-> from_hhbc(m.name, strings),
     src_loc |-> <<"SrcLoc", m.span>>,
     doc_comment |-> MaybeToOption(m.doc_comment)]

\* hhbc::Constant -> ir::HackConstant
ConstantToIr(c, strings) ==
    [name |-> from_hhbc(c.name, strings),
     value |-> IF c.value[1] = "Just" THEN Some(tv_to_ir(c.value[2], strings)) ELSE None]

\* hhbc::Fatal -> ir::Fatal
FatalToIr(f) == [op |-> f.op, loc |-> <<"SrcLoc", f.loc>>, message |-> f.message]

\* Every name of the fields bc_to_ir converts before its loops
RECURSIVE Flatten(_)
Flatten(xss) == IF xss = <<>> THEN <<>> ELSE Head(xss) \o Flatten(Tail(xss))

FrameNames(u) ==
    [i \in 1 .. Len(u.constants) |-> u.constants[i].name]
    \o [i \in 1 .. Len(u.file_attributes) |-> u.file_attributes[i].name]
    \o Flatten([i \in 1 .. Len(u.modules) |->
                  [k \in 1 .. Len(u.modules[i].attributes) |->
                      u.modules[i].attributes[k].name] \o <<u.modules[i].name>>])
    \o [i \in 1 .. Len(u.typedefs) |-> u.typedefs[i].name]
    \o (IF u.module_use[1] = "Just" THEN <<u.module_use[2]>> ELSE <<>>)

\* bc_to_ir up to its first loop: the adata lookup table and the ir::Unit
\* with the fields that are converted whole
BcStart ==
    /\ cPc = "bc_start"
    /\ adata_lookup' = [id \in 0 .. Len(unit.adata) - 1 |->
                            tv_to_ir(unit.adata[id + 1], InternAll(<<>>, FrameNames(unit)))]
    /\ LET strings == InternAll(<<>>, FrameNames(unit))
       IN  ir' = [classes |-> <<>>,
                  constants |-> [i \in 1 .. Len(unit.constants) |->
                                    ConstantToIr(unit.constants[i], strings)],
                  fatal |-> None,
                  file_attributes |-> [i \in 1 .. Len(unit.file_attributes) |->
                                    AttrToIr(unit.file_attributes[i], strings)],
                  functions |-> <<>>,
                  module_use |-> IF unit.module_use[1] = "Just"
                                   THEN Some(from_hhbc(unit.module_use[2], strings))
                                   ELSE None,
                  modules |-> [i \in 1 .. Len(unit.modules) |->
                                    ModuleToIr(unit.modules[i], strings)],
                  symbol_refs |-> unit.symbol_refs,
                  typedefs |-> [i \in 1 .. Len(unit.typedefs) |->
                                    [name |-> from_hhbc(unit.typedefs[i].name, strings)]],
                  strings |-> strings]
    /\ cPc' = "bc_classes" /\ cI' = 0
    /\ UNCHANGED <<unit, builder, out, log>>
    /\ UNCHANGED <<vidVars, nameVars, tvVars, cacheVars, decVars, adataVars>>

\* class::convert_class: the class container, without its methods
BcConvertClass ==
    /\ cPc = "bc_classes" /\ cI < Len(unit.classes)
    /\ LET c == unit.classes[cI + 1]
           strings == InternAll(intern_table(ir.strings, c.name),
                                [k \in 1 .. Len(c.props) |-> c.props[k].name])
       IN  ir' = [ir EXCEPT
                    !.strings = strings,
                    !.classes = Append(@, [name |-> from_hhbc(c.name, strings),
                                           props |-> [k \in 1 .. Len(c.props) |->
                                               [name |-> from_hhbc(c.props[k].name, strings)]],
                                           methods |-> <<>>])]
    /\ log' = Append(log, <<"class", cI>>)
    /\ cI' = cI + 1
    /\ UNCHANGED <<unit, cPc, adata_lookup, builder, out>>
    /\ UNCHANGED <<vidVars, nameVars, tvVars, cacheVars, decVars, adataVars>>

BcClassesDone ==
    /\ cPc = "bc_classes" /\ cI = Len(unit.classes)
    /\ cPc' = "bc_functions" /\ cI' = 0
    /\ UNCHANGED <<unit, ir, adata_lookup, builder, out, log>>
    /\ UNCHANGED <<vidVars, nameVars, tvVars, cacheVars, decVars, adataVars>>

\* func::convert_function: the function, its adata references resolved
BcConvertFunction ==
    /\ cPc = "bc_functions" /\ cI < Len(unit.functions)
    /\ LET f == unit.functions[cI + 1]
       IN  ir' = [ir EXCEPT
                    !.strings = intern_table(@, f.name),
                    !.functions = Append(@,
                        [name |-> from_hhbc(f.name, ir.strings),
                         consts |-> [k \in 1 .. Len(f.adata) |-> adata_lookup[f.adata[k]]]])]
    /\ log' = Append(log, <<"function", cI>>)
    /\ cI' = cI + 1
    /\ UNCHANGED <<unit, cPc, adata_lookup, builder, out>>
    /\ UNCHANGED <<vidVars, nameVars, tvVars, cacheVars, decVars, adataVars>>

BcFunctionsDone ==
    /\ cPc = "bc_functions" /\ cI = Len(unit.functions)
    /\ cPc' = "bc_methods" /\ cI' = 0
    /\ UNCHANGED <<unit, ir, adata_lookup, builder, out, log>>
    /\ UNCHANGED <<vidVars, nameVars, tvVars, cacheVars, decVars, adataVars>>

\* The pairs with the class index counted from 1.
MethodPairs_from_one(u) ==
    Flatten([i \in 1 .. Len(u.classes) |->
               [j \in 1 .. Len(u.classes[i].methods) |->
                   [idx |-> i, m |-> u.classes[i].methods[j]]]])

\* The (class index, method) pairs of the nested loop over classes and their
\* methods, in iteration order; class indices count from 0
MethodPairs(u) ==
    Flatten([i \in 1 .. Len(u.classes) |->
               [j \in 1 .. Len(u.classes[i].methods) |->
                   [idx |-> i - 1, m |-> u.classes[i].methods[j]]]])

\* func::convert_method: the method, added to the class container at idx
BcConvertMethod ==
    /\ cPc = "bc_methods" /\ cI < Len(MethodPairs(unit))
    /\ LET p == MethodPairs(unit)[cI + 1]
       IN  IF p.idx < Len(ir.classes)
             THEN /\ ir' = [ir EXCEPT
                              !.strings = intern_table(@, p.m.name),
                              !.classes[p.idx + 1].methods =
                                  Append(@, [name |-> from_hhbc(p.m.name, ir.strings)])]
                  /\ log' = Append(log, <<"method", p.idx>>)
                  /\ cI' = cI + 1 /\ cPc' = cPc
             ELSE /\ cPc' = "panic"
                  /\ UNCHANGED <<ir, log, cI>>
    /\ UNCHANGED <<unit, adata_lookup, builder, out>>
    /\ UNCHANGED <<vidVars, nameVars, tvVars, cacheVars, decVars, adataVars>>

BcMethodsDone ==
    /\ cPc = "bc_methods" /\ cI = Len(MethodPairs(unit))
    /\ cPc' = "bc_fatal" /\ cI' = 0
    /\ UNCHANGED <<unit, ir, adata_lookup, builder, out, log>>
    /\ UNCHANGED <<vidVars, nameVars, tvVars, cacheVars, decVars, adataVars>>

\* ir_unit.fatal = unit.fatal.clone().into(), and the unit is returned
BcFatal ==
    /\ cPc = "bc_fatal"
    /\ ir' = [ir EXCEPT !.fatal = IF unit.fatal[1] = "Just"
                                    THEN Some(FatalToIr(unit.fatal[2])) ELSE None]
    /\ cPc' = "ir_start"
    /\ UNCHANGED <<unit, cI, adata_lookup, builder, out, log>>
    /\ UNCHANGED <<vidVars, nameVars, tvVars, cacheVars, decVars, adataVars>>

(***************************************************************************)
(* ir_to_bc (ir/conversions/ir_to_bc/convert.rs, strings.rs)               *)
(***************************************************************************)

IsCont(b) == 128 <= b /\ b <= 191

\* std::str::from_utf8 on texts whose characters take one or two bytes:
\* Some(text) when the bytes are well-formed UTF-8, None otherwise
RECURSIVE ValidUtf8(_)
ValidUtf8(bs) ==
    IF bs = <<>> THEN TRUE
    ELSE IF Head(bs) < 128 THEN ValidUtf8(Tail(bs))
    ELSE IF 194 <= Head(bs) /\ Head(bs) <= 223
         THEN Len(bs) >= 2 /\ IsCont(bs[2]) /\ ValidUtf8(Tail(Tail(bs)))
    ELSE FALSE

from_utf8(bs) == IF ValidUtf8(bs) THEN Some(bs) ELSE None

\* StringCache::intern
StringCache_intern(strings, id) == from_utf8(strings[id])

\* A lookup that replaces bytes that are no text by U+FFFD.
lookup_class_name_lossy(strings, id) ==
    IF ValidUtf8(strings[id]) THEN Some(strings[id]) ELSE Some(<<239, 191, 189>>)

\* StringCache::lookup_class_name, before its expect()
lookup_class_name(strings, id) == from_utf8(strings[id])

\* StringCache::lookup_module_name, before its expect()
lookup_module_name(strings, id) == from_utf8(strings[id])

\* StringCache::lookup_const_name, before its expect()
lookup_const_name(strings, id) == from_utf8(strings[id])

\* StringCache::lookup_function_name, before its expect()
lookup_function_name(strings, id) == from_utf8(strings[id])

\* StringCache::lookup_prop_name, before its expect()
lookup_prop_name(strings, id) == from_utf8(strings[id])

\* StringCache::lookup_method_name: the bytes, whatever they are
lookup_method_name(strings, id) == strings[id]

\* convert_array_key with an Int key turned into a Float.
convert_array_key_int_as_float(k, strings) ==
    CASE k[1] = "Int" -> <<"Float", k[2]>>
      [] k[1] = "LazyClass" ->
            IF StringCache_intern(strings, k[2]) = None THEN Panic
            ELSE <<"LazyClass", StringCache_intern(strings, k[2])[2]>>
      [] k[1] = "String" -> <<"String", strings[k[2]]>>

\* convert_array_key
convert_array_key(k, strings) ==
    CASE k[1] = "Int" -> <<"Int", k[2]>>
      [] k[1] = "LazyClass" ->
            IF StringCache_intern(strings, k[2]) = None THEN Panic
            ELSE <<"LazyClass", StringCache_intern(strings, k[2])[2]>>
      [] k[1] = "String" -> <<"String", strings[k[2]]>>

\* convert_typed_value with the entries of a Dict collected back to front.
RECURSIVE convert_typed_value_dict_reversed(_, _)
convert_typed_value_dict_reversed(tv, strings) ==
    CASE tv[1] = "Uninit" -> <<"Uninit">>
      [] tv[1] = "Int" -> <<"Int", tv[2]>>
      [] tv[1] = "Bool" -> <<"Bool", tv[2]>>
      [] tv[1] = "Float" -> <<"Float", tv[2]>>
      [] tv[1] = "String" -> <<"String", strings[tv[2]]>>
      [] tv[1] = "LazyClass" ->
            IF StringCache_intern(strings, tv[2]) = None THEN Panic
            ELSE <<"LazyClass", StringCache_intern(strings, tv[2])[2]>>
      [] tv[1] = "Null" -> <<"Null">>
      [] tv[1] = "Vec" ->
            LET vs == [i \in 1 .. Len(tv[2]) |->
                          convert_typed_value_dict_reversed(tv[2][i], strings)]
            IN  IF AnyPanic(vs) THEN Panic ELSE <<"Vec", vs>>
      [] tv[1] = "Keyset" ->
            LET vs == [i \in 1 .. Len(tv[2]) |-> convert_array_key(tv[2][i], strings)]
            IN  IF AnyPanic(vs) THEN Panic ELSE <<"Keyset", vs>>
      [] tv[1] = "Dict" ->
            LET n == Len(tv[2])
                ks == [i \in 1 .. n |-> convert_array_key(tv[2][n + 1 - i][1], strings)]
                vs == [i \in 1 .. n |->
                          convert_typed_value_dict_reversed(tv[2][n + 1 - i][2], strings)]
            IN  IF AnyPanic(ks) \/ AnyPanic(vs) THEN Panic
                ELSE <<"Dict", [i \in 1 .. n |-> [key |-> ks[i], value |-> vs[i]]]>>

\* convert_typed_value
RECURSIVE convert_typed_value(_, _)
convert_typed_value(tv, strings) ==
    CASE tv[1] = "Uninit" -> <<"Uninit">>
      [] tv[1] = "Int" -> <<"Int", tv[2]>>
      [] tv[1] = "Bool" -> <<"Bool", tv[2]>>
      [] tv[1] = "Float" -> <<"Float", tv[2]>>
      [] tv[1] = "String" -> <<"String", strings[tv[2]]>>
      [] tv[1] = "LazyClass" ->
            IF StringCache_intern(strings, tv[2]) = None THEN Panic
            ELSE <<"LazyClass", StringCache_intern(strings, tv[2])[2]>>
      [] tv[1] = "Null" -> <<"Null">>
      [] tv[1] = "Vec" ->
            LET vs == [i \in 1 .. Len(tv[2]) |-> convert_typed_value(tv[2][i], strings)]
            IN  IF AnyPanic(vs) THEN Panic ELSE <<"Vec", vs>>
      [] tv[1] = "Keyset" ->
            LET vs == [i \in 1 .. Len(tv[2]) |-> convert_array_key(tv[2][i], strings)]
            IN  IF AnyPanic(vs) THEN Panic ELSE <<"Keyset", vs>>
      [] tv[1] = "Dict" ->
            LET ks == [i \in 1 .. Len(tv[2]) |-> convert_array_key(tv[2][i][1], strings)]
                vs == [i \in 1 .. Len(tv[2]) |-> convert_typed_value(tv[2][i][2], strings)]
            IN  IF AnyPanic(ks) \/ AnyPanic(vs) THEN Panic
                ELSE <<"Dict", [i \in 1 .. Len(tv[2]) |-> [key |-> ks[i], value |-> vs[i]]]>>

\* convert_attributes
convert_attributes(attrs, strings) ==
    LET one(a) ==
          LET args == [i \in 1 .. Len(a.arguments) |->
                          convert_typed_value(a.arguments[i], strings)]
              nm == lookup_class_name(strings, a.name)
          IN  IF AnyPanic(args) \/ nm = None THEN Panic
              ELSE Ok([name |-> nm[2], arguments |-> args])
    IN  Collect([i \in 1 .. Len(attrs) |-> one(attrs[i])])

\* convert_symbol_refs
convert_symbol_refs(symbol_refs) ==
    [classes |-> symbol_refs.classes, constants |-> symbol_refs.constants,
     functions |-> symbol_refs.functions, includes |-> symbol_refs.includes]

\* AdataCache::intern: the AdataId of a value, the pool extended when it is new
AdataPos(cache, v) == { i \in 1 .. Len(cache) : cache[i] = v }

AdataCache_pool(cache, v) == IF AdataPos(cache, v) # {} THEN cache ELSE Append(cache, v)

AdataCache_id(cache, v) ==
    (CHOOSE i \in AdataPos(AdataCache_pool(cache, v), v) : TRUE) - 1

RECURSIVE AdataCache_all(_, _)
AdataCache_all(cache, vs) ==
    IF vs = <<>> THEN cache
    ELSE AdataCache_all(AdataCache_pool(cache, Head(vs)), Tail(vs))

\* StringCache::new and UnitBuilder::new
IrStart ==
    /\ cPc = "ir_start"
    /\ builder' = [adata_cache |-> <<>>, functions |-> <<>>, classes |-> <<>>]
    /\ cPc' = "ir_classes" /\ cI' = 0
    /\ UNCHANGED <<unit, ir, adata_lookup, out, log>>
    /\ UNCHANGED <<vidVars, nameVars, tvVars, cacheVars, decVars, adataVars>>

\* class::convert_class: the class with its methods, added to the builder
IrConvertClass ==
    /\ cPc = "ir_classes" /\ cI < Len(ir.classes)
    /\ LET c == ir.classes[cI + 1]
           nm == lookup_class_name(ir.strings, c.name)
           ps == [k \in 1 .. Len(c.props) |-> lookup_prop_name(ir.strings, c.props[k].name)]
       IN  IF nm = None \/ \E k \in 1 .. Len(ps) : ps[k] = None
             THEN cPc' = "panic" /\ UNCHANGED <<builder, log, cI>>
             ELSE /\ builder' = [builder EXCEPT !.classes = Append(@,
                          [name |-> nm[2],
                           props |-> [k \in 1 .. Len(ps) |-> [name |-> ps[k][2]]],
                           methods |-> [j \in 1 .. Len(c.methods) |->
                               [name |-> lookup_method_name(ir.strings, c.methods[j].name)]]])]
                  /\ log' = Append(log, <<"ir_class", cI>>)
                  /\ cI' = cI + 1 /\ cPc' = cPc
    /\ UNCHANGED <<unit, ir, adata_lookup, out>>
    /\ UNCHANGED <<vidVars, nameVars, tvVars, cacheVars, decVars, adataVars>>

\* The classes loop falling through to finish(), the functions loop left out.
IrClassesDone_to_finish ==
    /\ cPc = "ir_classes" /\ cI = Len(ir.classes)
    /\ cPc' = "ir_finish" /\ cI' = 0
    /\ UNCHANGED <<unit, ir, adata_lookup, builder, out, log>>
    /\ UNCHANGED <<vidVars, nameVars, tvVars, cacheVars, decVars, adataVars>>

IrClassesDone ==
    /\ cPc = "ir_classes" /\ cI = Len(ir.classes)
    /\ cPc' = "ir_functions" /\ cI' = 0
    /\ UNCHANGED <<unit, ir, adata_lookup, builder, out, log>>
    /\ UNCHANGED <<vidVars, nameVars, tvVars, cacheVars, decVars, adataVars>>

\* func::convert_function: the function, its constants interned in the pool
IrConvertFunction ==
    /\ cPc = "ir_functions" /\ cI < Len(ir.functions)
    /\ LET f == ir.functions[cI + 1]
           nm == lookup_function_name(ir.strings, f.name)
           vs == [k \in 1 .. Len(f.consts) |-> convert_typed_value(f.consts[k], ir.strings)]
       IN  IF nm = None \/ AnyPanic(vs)
             THEN cPc' = "panic" /\ UNCHANGED <<builder, log, cI>>
             ELSE /\ builder' = [builder EXCEPT
                        !.adata_cache = AdataCache_all(@, vs),
                        !.functions = Append(@,
                          [name |-> nm[2],
                           adata |-> [k \in 1 .. Len(vs) |->
                              AdataCache_id(AdataCache_all(builder.adata_cache,
                                                           SubSeq(vs, 1, k - 1)), vs[k])]])]
                  /\ log' = Append(log, <<"ir_function", cI>>)
                  /\ cI' = cI + 1 /\ cPc' = cPc
    /\ UNCHANGED <<unit, ir, adata_lookup, out>>
    /\ UNCHANGED <<vidVars, nameVars, tvVars, cacheVars, decVars, adataVars>>

IrFunctionsDone ==
    /\ cPc = "ir_functions" /\ cI = Len(ir.functions)
    /\ cPc' = "ir_finish" /\ cI' = 0
    /\ UNCHANGED <<unit, ir, adata_lookup, builder, out, log>>
    /\ UNCHANGED <<vidVars, nameVars, tvVars, cacheVars, decVars, adataVars>>

\* finish() leaving the functions at their default.
finish_without_functions(b) ==
    [adata |-> b.adata_cache, functions |-> <<>>, classes |-> b.classes,
     typedefs |-> <<>>, file_attributes |-> <<>>, modules |-> <<>>,
     module_use |-> Nothing,
     symbol_refs |-> [classes |-> {}, constants |-> {}, functions |-> {},
                      includes |-> {}],
     constants |-> <<>>, fatal |-> Nothing,
     missing_symbols |-> <<>>, error_symbols |-> <<>>,
     valid_utf8 |-> TRUE, invalid_utf8_offset |-> 0]

\* UnitBuilder::finish
finish(b) ==
    [adata |-> b.adata_cache, functions |-> b.functions, classes |-> b.classes,
     typedefs |-> <<>>, file_attributes |-> <<>>, modules |-> <<>>,
     module_use |-> Nothing,
     symbol_refs |-> [classes |-> {}, constants |-> {}, functions |-> {},
                      includes |-> {}],
     constants |-> <<>>, fatal |-> Nothing,
     missing_symbols |-> <<>>, error_symbols |-> <<>>,
     valid_utf8 |-> TRUE, invalid_utf8_offset |-> 0]

\* let mut unit = unit.finish()
IrFinish ==
    /\ cPc = "ir_finish"
    /\ out' = finish(builder)
    /\ log' = Append(log, <<"finish">>)
    /\ cPc' = "ir_file_attributes"
    /\ UNCHANGED <<unit, cI, ir, adata_lookup, builder>>
    /\ UNCHANGED <<vidVars, nameVars, tvVars, cacheVars, decVars, adataVars>>

\* One of the assignments to a field of the finished unit: the field is
\* written, or the conversion of its value panics
SetField(here, field, value, next) ==
    /\ cPc = here
    /\ IF IsPanic(value)
         THEN cPc' = "panic" /\ UNCHANGED <<out, log>>
         ELSE /\ out' = [out EXCEPT ![field] = value[2]]
              /\ log' = Append(log, <<"field", field>>)
              /\ cPc' = next
    /\ UNCHANGED <<unit, cI, ir, adata_lookup, builder>>
    /\ UNCHANGED <<vidVars, nameVars, tvVars, cacheVars, decVars, adataVars>>

\* unit.file_attributes = convert_attributes(...)
IrFileAttributes ==
    SetField("ir_file_attributes", "file_attributes",
             convert_attributes(ir.file_attributes, ir.strings), "ir_typedefs")

\* types::convert_typedef
convert_typedef(td, strings) ==
    IF lookup_class_name(strings, td.name) = None THEN Panic
    ELSE Ok([name |-> lookup_class_name(strings, td.name)[2]])

\* unit.typedefs = ...
IrTypedefs ==
    SetField("ir_typedefs", "typedefs",
             Collect([i \in 1 .. Len(ir.typedefs) |->
                         convert_typedef(ir.typedefs[i], ir.strings)]),
             "ir_constants")

\* constant::convert_hack_constant
convert_hack_constant(c, strings) ==
    LET nm == lookup_const_name(strings, c.name)
        v == IF c.value[1] = "Some" THEN convert_typed_value(c.value[2], strings)
             ELSE <<"Null">>
    IN  IF nm = None \/ IsPanic(v) THEN Panic
        ELSE Ok([name |-> nm[2],
                 value |-> IF c.value[1] = "Some" THEN Just(v) ELSE Nothing])

\* unit.constants = ...
IrConstants ==
    SetField("ir_constants", "constants",
             Collect([i \in 1 .. Len(ir.constants) |->
                         convert_hack_constant(ir.constants[i], ir.strings)]),
             "ir_modules")

\* The closure that builds one hhbc::Module
convert_module(m, strings) ==
    LET attrs == convert_attributes(m.attributes, strings)
        nm == lookup_module_name(strings, m.name)
    IN  IF IsPanic(attrs) \/ nm = None THEN Panic
        ELSE Ok([attributes |-> attrs[2], name |-> nm[2], span |-> m.src_loc[2],
                 doc_comment |-> OptionToMaybe(m.doc_comment),
                 exports |-> Nothing, imports |-> Nothing])

\* unit.modules = ...
IrModules ==
    SetField("ir_modules", "modules",
             Collect([i \in 1 .. Len(ir.modules) |->
                         convert_module(ir.modules[i], ir.strings)]),
             "ir_module_use")

\* unit.module_use = ...
IrModuleUse ==
    SetField("ir_module_use", "module_use",
             IF ir.module_use[1] = "Some"
               THEN IF lookup_module_name(ir.strings, ir.module_use[2]) = None
                      THEN Panic
                      ELSE Ok(Just(lookup_module_name(ir.strings, ir.module_use[2])[2]))
               ELSE Ok(Nothing),
             "ir_symbol_refs")

\* unit.symbol_refs = convert_symbol_refs(...)
IrSymbolRefs ==
    SetField("ir_symbol_refs", "symbol_refs",
             Ok(convert_symbol_refs(ir.symbol_refs)), "ir_fatal")

FatalOps == {"Parse", "Runtime", "RuntimeOmitFrame"}

\* The match with Runtime sent to RuntimeOmitFrame.
fatal_op_runtime_omits_frame(op) ==
    CASE op = "Parse" -> "Parse"
      [] op = "Runtime" -> "RuntimeOmitFrame"
      [] op = "RuntimeOmitFrame" -> "RuntimeOmitFrame"
      [] OTHER -> "unreachable"

\* The match on *op: ir::FatalOp -> hhbc::FatalOp
fatal_op_to_hhbc(op) ==
    CASE op = "Parse" -> "Parse"
      [] op = "Runtime" -> "Runtime"
      [] op = "RuntimeOmitFrame" -> "RuntimeOmitFrame"
      [] OTHER -> "unreachable"

\* The if let on ir_unit.fatal; the unit is returned
IrFatal ==
    /\ cPc = "ir_fatal"
    /\ IF ir.fatal[1] = "Some"
         THEN LET f == ir.fatal[2]
              IN  IF fatal_op_to_hhbc(f.op) # "unreachable"
                    THEN /\ out' = [out EXCEPT !.fatal =
                                Just([op |-> fatal_op_to_hhbc(f.op), loc |-> f.loc[2],
                                      message |-> f.message])]
                         /\ log' = Append(log, <<"field", "fatal">>)
                         /\ cPc' = "done"
                    ELSE cPc' = "panic" /\ UNCHANGED <<out, log>>
         ELSE cPc' = "done" /\ UNCHANGED <<out, log>>
    /\ UNCHANGED <<unit, cI, ir, adata_lookup, builder>>
    /\ UNCHANGED <<vidVars, nameVars, tvVars, cacheVars, decVars, adataVars>>

ConvInit ==
    /\ unit \in Units
    /\ cPc = "bc_start" /\ cI = 0 /\ ir = <<>>
    /\ adata_lookup = <<>> /\ builder = <<>> /\ out = <<>> /\ log = <<>>
    /\ VidIdle /\ NameIdle
    /\ TvIdle /\ CacheIdle /\ DecIdle /\ AdataIdle

ConvNext ==
    \/ BcStart
    \/ BcConvertClass \/ BcClassesDone
    \/ BcConvertFunction \/ BcFunctionsDone
    \/ BcConvertMethod \/ BcMethodsDone
    \/ BcFatal
    \/ IrStart
    \/ IrConvertClass \/ IrClassesDone
    \/ IrConvertFunction \/ IrFunctionsDone
    \/ IrFinish
    \/ IrFileAttributes \/ IrTypedefs \/ IrConstants \/ IrModules
    \/ IrModuleUse \/ IrSymbolRefs \/ IrFatal

SpecConv == ConvInit /\ [][ConvNext]_vars

(***************************************************************************)
(* Typed constants on their own: a persisted constant taken to the IR and  *)
(* back, or an IR constant taken to the persisted form                     *)
(***************************************************************************)

\* The longest Vec, Keyset or Dict of the constants tried.
MaxTvLen == 2

SeqsUpTo(S) == UNION { [1 .. n -> S] : n \in 0 .. MaxTvLen }

\* Texts: "s", "C", and two byte strings that are no UTF-8.
TextS == <<115>>

TextC == <<67>>

BadBytes == <<255>>

CutShort == <<195, 40>>

\* Persisted constants.  Float payloads are the value's bits.
HScalars ==
    { <<"Uninit">>, <<"Null">>, <<"Bool", TRUE>>, <<"Int", 7>>, <<"Float", 3>>,
      <<"String", TextS>>, <<"LazyClass", TextC>> }

HKeys == { <<"Int", 7>>, <<"Int", 8>>, <<"String", TextS>>, <<"LazyClass", TextC>> }

\* Shapes that are no array keys.
HNotKeys ==
    { <<"Uninit">>, <<"Null">>, <<"Bool", TRUE>>, <<"Float", 3>>,
      <<"Vec", <<>> >>, <<"Dict", <<>> >> }

HEntries ==
    { [key |-> k, value |-> v] :
        k \in { <<"Int", 7>>, <<"String", TextS>>, <<"Null">>, <<"Vec", <<>> >> },
        v \in { <<"Int", 7>>, <<"Null">>, <<"LazyClass", TextC>> } }

\* Arrays to nest: a Vec, a Keyset, a Dict with one key twice, a Keyset with
\* a Null in it, and a Vec of a Dict.
HInner ==
    { <<"Int", 7>>,
      <<"Vec", << <<"Int", 7>>, <<"Int", 8>> >> >>,
      <<"Keyset", << <<"Int", 8>>, <<"Int", 7>> >> >>,
      <<"Dict", << [key |-> <<"Int", 7>>, value |-> <<"Null">>],
                   [key |-> <<"Int", 7>>, value |-> <<"Int", 7>>] >> >>,
      <<"Keyset", << <<"Null">> >> >>,
      <<"Vec", << <<"Dict", << [key |-> <<"String", TextS>>,
                                value |-> <<"LazyClass", TextC>>] >> >> >> >> }

HInnerEntries ==
    { [key |-> k, value |-> v] :
        k \in { <<"Int", 7>>, <<"String", TextS>> }, v \in HInner }

HValues ==
    HScalars
    \cup { <<"Vec", xs>> : xs \in SeqsUpTo(HScalars) }
    \cup { <<"Keyset", ks>> : ks \in SeqsUpTo(HKeys \cup HNotKeys) }
    \cup { <<"Dict", es>> : es \in SeqsUpTo(HEntries) }
    \cup { <<"Vec", xs>> : xs \in SeqsUpTo(HInner) }
    \cup { <<"Dict", es>> : es \in SeqsUpTo(HInnerEntries) }

\* An IR unit's string table for the constants built in the IR: ids 1 and 2
\* are text, ids 3 and 4 are not.
TvTable == <<TextS, TextC, BadBytes, CutShort>>

IScalars ==
    { <<"Uninit">>, <<"Null">>, <<"Bool", TRUE>>, <<"Int", 7>>, <<"Float", 3>>,
      <<"String", 1>>, <<"String", 3>>, <<"LazyClass", 2>>, <<"LazyClass", 3>>,
      <<"LazyClass", 4>> }

IKeys ==
    { <<"Int", 7>>, <<"String", 1>>, <<"String", 3>>, <<"LazyClass", 2>>,
      <<"LazyClass", 3>> }

IEntries ==
    { <<k, v>> : k \in IKeys, v \in { <<"Int", 7>>, <<"Null">>, <<"LazyClass", 3>> } }

IInner ==
    { <<"Int", 7>>,
      <<"Vec", << <<"Int", 7>>, <<"Int", 8>> >> >>,
      <<"Keyset", << <<"LazyClass", 3>> >> >>,
      <<"Dict", << << <<"Int", 7>>, <<"Null">> >>, << <<"Int", 7>>, <<"Int", 7>> >> >> >>,
      <<"Vec", << <<"Dict", << << <<"String", 1>>, <<"LazyClass", 2>> >> >> >> >> >> }

IValues ==
    IScalars
    \cup { <<"Vec", xs>> : xs \in SeqsUpTo(IScalars) }
    \cup { <<"Keyset", ks>> : ks \in SeqsUpTo(IKeys) }
    \cup { <<"Dict", es>> : es \in SeqsUpTo(IEntries) }
    \cup { <<"Vec", xs>> : xs \in SeqsUpTo(IInner) }

\* The texts of a persisted constant, in the order the conversion meets them
RECURSIVE TvNames(_)
TvNames(tv) ==
    CASE tv[1] \in {"String", "LazyClass"} -> <<tv[2]>>
      [] tv[1] \in {"Vec", "Keyset"} ->
            Flatten([i \in 1 .. Len(tv[2]) |-> TvNames(tv[2][i])])
      [] tv[1] = "Dict" ->
            Flatten([i \in 1 .. Len(tv[2]) |->
                        TvNames(tv[2][i].key) \o TvNames(tv[2][i].value)])
      [] OTHER -> <<>>

TvInit ==
    /\ \/ /\ tvPc = "bc" /\ tvIn \in HValues
          /\ tvStrings = <<>> /\ tvIr = <<>>
       \/ /\ tvPc = "ir" /\ tvIn = <<>>
          /\ tvStrings = TvTable /\ tvIr \in IValues
    /\ tvOut = <<>>
    /\ VidIdle /\ NameIdle /\ ConvIdle /\ CacheIdle /\ DecIdle /\ AdataIdle

\* The forward conversion of one constant: its texts are interned in the IR
\* unit's table; a shape that is no key in a key position is fatal
TvToIr ==
    /\ tvPc = "bc"
    /\ LET strings == InternAll(<<>>, TvNames(tvIn))
           v == tv_to_ir(tvIn, strings)
       IN  IF IsPanic(v)
             THEN tvPc' = "failed" /\ UNCHANGED <<tvStrings, tvIr>>
             ELSE tvPc' = "ir" /\ tvStrings' = strings /\ tvIr' = v
    /\ UNCHANGED <<tvIn, tvOut>>
    /\ UNCHANGED <<vidVars, nameVars, convVars, cacheVars, decVars, adataVars>>

\* convert_typed_value(&tv, &strings)
TvToBc ==
    /\ tvPc = "ir"
    /\ tvOut' = convert_typed_value(tvIr, tvStrings)
    /\ tvPc' = "done"
    /\ UNCHANGED <<tvIn, tvStrings, tvIr>>
    /\ UNCHANGED <<vidVars, nameVars, convVars, cacheVars, decVars, adataVars>>

TvNext == TvToIr \/ TvToBc

SpecTv == TvInit /\ [][TvNext]_vars

(***************************************************************************)
(* ir_to_bc on IR units whose string table holds bytes that are no text    *)
(***************************************************************************)

\* The most places of one IR unit that hold bytes that are no text (or, for
\* the Fatal, a kind that is none of the three).
MaxBad == 2

\* The places of the IR unit that name something.
Slots ==
    { "class", "prop", "method", "function", "func_const", "constant",
      "dict_key", "string_const", "module", "module_attr", "module_use",
      "file_attr", "file_attr_arg", "typedef", "fatal_op" }

BadChoices == { B \in SUBSET Slots : Cardinality(B) <= MaxBad }

\* The id a place holds: in TvTable ids 1 and 2 are text, 3 and 4 are not.
SlotId(bad, slot, good, wrong) == IF slot \in bad THEN wrong ELSE good

\* ir::Unit with one of everything
MkIrUnit(bad) ==
    [classes |-> << [name |-> SlotId(bad, "class", 2, 3),
                     props |-> << [name |-> SlotId(bad, "prop", 1, 4)] >>,
                     methods |-> << [name |-> SlotId(bad, "method", 1, 3)] >>] >>,
     constants |-> << [name |-> SlotId(bad, "constant", 1, 3),
                       value |-> Some(<<"Dict",
                           << << <<"LazyClass", SlotId(bad, "dict_key", 2, 4)>>,
                                 <<"String", SlotId(bad, "string_const", 1, 3)>> >> >> >>)] >>,
     fatal |-> Some([op |-> IF "fatal_op" \in bad THEN "Unknown" ELSE "Runtime",
                     loc |-> <<"SrcLoc", <<1, 2>> >>, message |-> <<111>>]),
     file_attributes |-> << [name |-> SlotId(bad, "file_attr", 2, 3),
                             arguments |-> << <<"LazyClass",
                                                SlotId(bad, "file_attr_arg", 2, 3)>> >>] >>,
     functions |-> << [name |-> SlotId(bad, "function", 1, 4),
                       consts |-> << <<"Vec", << <<"LazyClass",
                                         SlotId(bad, "func_const", 2, 3)>> >> >> >>] >>,
     module_use |-> Some(SlotId(bad, "module_use", 1, 3)),
     modules |-> << [attributes |-> << [name |-> SlotId(bad, "module_attr", 2, 4),
                                        arguments |-> <<>>] >>,
                     name |-> SlotId(bad, "module", 1, 3),
                     src_loc |-> <<"SrcLoc", <<1, 4>> >>,
                     doc_comment |-> None] >>,
     symbol_refs |-> [classes |-> {}, constants |-> {}, functions |-> {},
                      includes |-> {}],
     typedefs |-> << [name |-> SlotId(bad, "typedef", 2, 3)] >>,
     strings |-> TvTable]

IrUnits == { MkIrUnit(bad) : bad \in BadChoices }

IrInit ==
    /\ ir \in IrUnits
    /\ unit = <<>> /\ cPc = "ir_start" /\ cI = 0
    /\ adata_lookup = <<>> /\ builder = <<>> /\ out = <<>> /\ log = <<>>
    /\ VidIdle /\ NameIdle
    /\ TvIdle /\ CacheIdle /\ DecIdle /\ AdataIdle

IrNext ==
    \/ IrStart
    \/ IrConvertClass \/ IrClassesDone
    \/ IrConvertFunction \/ IrFunctionsDone
    \/ IrFinish
    \/ IrFileAttributes \/ IrTypedefs \/ IrConstants \/ IrModules
    \/ IrModuleUse \/ IrSymbolRefs \/ IrFatal

SpecIr == IrInit /\ [][IrNext]_vars

(***************************************************************************)
(* StringCache::lookup_ffi_str called from several threads                 *)
(* (ir/conversions/ir_to_bc/strings.rs)                                    *)
(***************************************************************************)

\* How many threads share the cache, and how many shards the DashMap has.
MaxThreads == 2

Shards == 2

Threads == 1 .. MaxThreads

\* The ids looked up: two of text, one of bytes that are no text.
ScIds == 1 .. 3

\* The shard of the DashMap a key falls into
ShardOf(id) == (id % Shards) + 1

NoSlice == [addr |-> 0, bytes |-> <<>>]

\* cache.contains_key(id) and the value stored for id
Present(cache, id) == \E e \in cache : e.id = id

Get(cache, id) == (CHOOSE e \in cache : e.id = id).slice

ScInit ==
    /\ scCache = {} /\ scAlloc = 0 /\ scWrites = <<>>
    /\ scLock = [sh \in 1 .. Shards |-> 0]
    /\ tPc = [t \in Threads |-> "idle"]
    /\ tId = [t \in Threads |-> 1]
    /\ tRet = [t \in Threads |-> NoSlice]
    /\ VidIdle /\ NameIdle /\ ConvIdle /\ TvIdle /\ DecIdle /\ AdataIdle

\* A thread calls lookup_ffi_str(id)
ScCall(t, id) ==
    /\ tPc[t] \in {"idle", "done"}
    /\ tPc' = [tPc EXCEPT ![t] = "entry"]
    /\ tId' = [tId EXCEPT ![t] = id]
    /\ tRet' = [tRet EXCEPT ![t] = NoSlice]
    /\ UNCHANGED <<scCache, scLock, scAlloc, scWrites>>
    /\ UNCHANGED <<vidVars, nameVars, convVars, tvVars, decVars, adataVars>>

\* A look into the map that holds no lock afterwards.
ScEntry_unlocked(t) ==
    /\ tPc[t] = "entry"
    /\ scLock[ShardOf(tId[t])] = 0
    /\ tPc' = [tPc EXCEPT ![t] = IF Present(scCache, tId[t]) THEN "occupied" ELSE "vacant"]
    /\ UNCHANGED <<scCache, scLock, scAlloc, scWrites, tId, tRet>>
    /\ UNCHANGED <<vidVars, nameVars, convVars, tvVars, decVars, adataVars>>

\* self.cache.entry(id): waits for the shard's write lock, takes it, and
\* finds the entry occupied or vacant
ScEntry(t) ==
    /\ tPc[t] = "entry"
    /\ scLock[ShardOf(tId[t])] = 0
    /\ scLock' = [scLock EXCEPT ![ShardOf(tId[t])] = t]
    /\ tPc' = [tPc EXCEPT ![t] = IF Present(scCache, tId[t]) THEN "occupied" ELSE "vacant"]
    /\ UNCHANGED <<scCache, scAlloc, scWrites, tId, tRet>>
    /\ UNCHANGED <<vidVars, nameVars, convVars, tvVars, decVars, adataVars>>

\* or_insert_with on a vacant entry: the closure copies the interner's bytes
\* into a new slice of the arena, and the slice is stored under id
ScInsert(t) ==
    /\ tPc[t] = "vacant"
    /\ LET slice == [addr |-> scAlloc + 1, bytes |-> TvTable[tId[t]]]
       IN  /\ scCache' = { e \in scCache : e.id # tId[t] }
                            \cup { [id |-> tId[t], slice |-> slice] }
           /\ scWrites' = Append(scWrites, [id |-> tId[t], slice |-> slice])
    /\ scAlloc' = scAlloc + 1
    /\ tPc' = [tPc EXCEPT ![t] = "occupied"]
    /\ UNCHANGED <<scLock, tId, tRet>>
    /\ UNCHANGED <<vidVars, nameVars, convVars, tvVars, decVars, adataVars>>

\* The deref of the entry: the stored Str is copied out, the guard dropped
\* and with it the shard's lock
ScReturn(t) ==
    /\ tPc[t] = "occupied"
    /\ tRet' = [tRet EXCEPT ![t] = Get(scCache, tId[t])]
    /\ scLock' = [scLock EXCEPT ![ShardOf(tId[t])] = IF @ = t THEN 0 ELSE @]
    /\ tPc' = [tPc EXCEPT ![t] = "done"]
    /\ UNCHANGED <<scCache, scAlloc, scWrites, tId>>
    /\ UNCHANGED <<vidVars, nameVars, convVars, tvVars, decVars, adataVars>>

ScNext ==
    \/ \E t \in Threads, id \in ScIds : ScCall(t, id)
    \/ \E t \in Threads : ScEntry(t)
    \/ \E t \in Threads : ScInsert(t)
    \/ \E t \in Threads : ScReturn(t)

SpecCache == ScInit /\ [][ScNext]_vars

(***************************************************************************)
(* Number texts: u32::from_str, as AdataId::parse and the Local decoder    *)
(* use it, and the Display of a u32                                        *)
(***************************************************************************)

IsDigit(b) == 48 <= b /\ b <= 57

\* One step of the parse: acc * 10 + d with checked_mul and checked_add
MulAdd(acc, d) ==
    LET lo == acc.lo * 10 + d
        hi == acc.hi * 10 + lo \div Half
    IN  IF hi >= Half THEN <<"PosOverflow">> ELSE <<"Ok", [hi |-> hi, lo |-> lo % Half]>>

\* The digit loop, left to right
RECURSIVE ParseDigits(_, _)
ParseDigits(acc, ds) ==
    IF ds = <<>> THEN <<"Ok", acc>>
    ELSE IF ~IsDigit(Head(ds)) THEN <<"InvalidDigit">>
    ELSE LET r == MulAdd(acc, Head(ds) - 48)
         IN  IF r[1] = "Ok" THEN ParseDigits(r[2], Tail(ds)) ELSE r

\* u32::from_str: Ok(n), or the kind of the ParseIntError
u32_from_str(bs) ==
    IF bs = <<>> THEN <<"Empty">>
    ELSE LET ds == IF Head(bs) = 43 THEN Tail(bs) ELSE bs
         IN  IF ds = <<>> THEN <<"InvalidDigit">>
             ELSE ParseDigits([hi |-> 0, lo |-> 0], ds)

\* n / 10 and n % 10 of a u32
DivTen(n) ==
    LET r == (n.hi % 10) * Half + n.lo
    IN  [q |-> [hi |-> n.hi \div 10, lo |-> r \div 10], r |-> r % 10]

\* Display for u32: the decimal digits, no sign, no leading zero
RECURSIVE u32_fmt(_)
u32_fmt(n) ==
    IF n.hi = 0 /\ n.lo < 10 THEN <<48 + n.lo>>
    ELSE Append(u32_fmt(DivTen(n).q), 48 + DivTen(n).r)

(***************************************************************************)
(* AdataId (hhbc/id.rs)                                                    *)
(***************************************************************************)

\* "A_"
PrefixA == <<65, 95>>

\* str::strip_prefix
strip_prefix(s, pre) ==
    IF Len(s) >= Len(pre) /\ SubSeq(s, 1, Len(pre)) = pre
      THEN Some(SubSeq(s, Len(pre) + 1, Len(s))) ELSE None

\* parse with a missing prefix taken for the whole text.
AdataId_parse_prefix_optional(s) ==
    u32_from_str(IF strip_prefix(s, PrefixA) = None THEN s ELSE strip_prefix(s, PrefixA)[2])

\* AdataId::parse
AdataId_parse(s) ==
    u32_from_str(IF strip_prefix(s, PrefixA) = None THEN <<>> ELSE strip_prefix(s, PrefixA)[2])

\* impl Display for AdataId
AdataId_fmt(id) == PrefixA \o u32_fmt(id)

\* Texts handed to parse: well-formed ones and malformed ones.
\* A_42 A_0 A_007 A_+5 A_4294967295 | (empty) A_ 42 B_42 a_42 A42 A_x A_4x
\* A_-1 A_+ A_4294967296 A_99999999999 A_ 42
AdataTexts ==
    { <<65, 95, 52, 50>>, <<65, 95, 48>>, <<65, 95, 48, 48, 55>>, <<65, 95, 43, 53>>,
      <<65, 95, 52, 50, 57, 52, 57, 54, 55, 50, 57, 53>>,
      <<>>, <<65, 95>>, <<52, 50>>, <<66, 95, 52, 50>>, <<97, 95, 52, 50>>,
      <<65, 52, 50>>, <<65, 95, 120>>, <<65, 95, 52, 120>>, <<65, 95, 45, 49>>,
      <<65, 95, 43>>,
      <<65, 95, 52, 50, 57, 52, 57, 54, 55, 50, 57, 54>>,
      <<65, 95, 57, 57, 57, 57, 57, 57, 57, 57, 57, 57, 57>>,
      <<65, 95, 32, 52, 50>> }

\* AdataId::INVALID
AdataId_INVALID == U32Max

AdataInit ==
    /\ \/ aPc = "id" /\ aId \in U32Samples /\ aText = <<>>
       \/ aPc = "text" /\ aId = AdataId_INVALID /\ aText \in AdataTexts
    /\ aOut = <<>>
    /\ VidIdle /\ NameIdle /\ ConvIdle /\ TvIdle /\ CacheIdle /\ DecIdle

\* id.to_string()
AdataFormat ==
    /\ aPc = "id"
    /\ aText' = AdataId_fmt(aId)
    /\ aPc' = "formatted"
    /\ UNCHANGED <<aId, aOut>>
    /\ UNCHANGED <<vidVars, nameVars, convVars, tvVars, cacheVars, decVars>>

\* AdataId::parse(text)
AdataParse ==
    /\ aPc \in {"formatted", "text"}
    /\ aOut' = AdataId_parse(aText)
    /\ aPc' = IF aPc = "formatted" THEN "round_trip" ELSE "parsed"
    /\ UNCHANGED <<aId, aText>>
    /\ UNCHANGED <<vidVars, nameVars, convVars, tvVars, cacheVars, decVars>>

AdataNext == AdataFormat \/ AdataParse

SpecAdata == AdataInit /\ [][AdataNext]_vars

(***************************************************************************)
(* The token cursor the operand decoder reads from                         *)
(***************************************************************************)

\* Token::Variable(bytes, pos), Token::Identifier(bytes, pos), ...: the kind,
\* the bytes and the line of a token
Tok(kind, bytes) == [kind |-> kind, bytes |-> bytes]

\* The tokens of a stream, each on a line of its own
MkStream(ts) ==
    [i \in 1 .. Len(ts) |-> [kind |-> ts[i].kind, bytes |-> ts[i].bytes, line |-> i]]

\* What stands for the token in an error raised at the end of the input
EofToken(toks) == [kind |-> "Eof", bytes |-> <<>>, line |-> Len(toks) + 1]

\* Results: Ok(value) or Err(error); an error holds a message and, when it
\* was made from a token, the token with its line
Err(e) == <<"Err", e>>

IsOk(r) == r[1] = "Ok"

\* Token::error and Lexer::error
Token_error(tok, msg) == [what |-> msg, token |-> Some(tok)]

Lexer_error(toks, msg) == [what |-> msg, token |-> Some(EofToken(toks))]

\* anyhow::Error made by `?` from a Utf8Error or a ParseIntError
ForeignError(what) == [what |-> what, token |-> None]

\* The outcome of a decoder: its result and the cursor it leaves
Ret(res, pos) == [res |-> res, pos |-> pos]

\* Lexer::next
Lexer_next(toks, pos) ==
    IF pos < Len(toks) THEN [tok |-> Some(toks[pos + 1]), pos |-> pos + 1]
    ELSE [tok |-> None, pos |-> pos]

\* Lexer::expect_token
expect_token(toks, pos) ==
    IF pos < Len(toks) THEN Ret(Ok(toks[pos + 1]), pos + 1)
    ELSE Ret(Err(Lexer_error(toks, "Expected a token")), pos)

\* Lexer::expect(Token::is_<kind>) and Lexer::expect_with(Token::into_<kind>)
expect(toks, pos, kind) ==
    LET r == expect_token(toks, pos)
    IN  IF ~IsOk(r.res) THEN r
        ELSE IF r.res[2].kind = kind THEN r
        ELSE Ret(Err(Token_error(r.res[2], "Expected " \o kind)), r.pos)

\* Lexer::expect_and_get_number::<u32>
expect_and_get_number(toks, pos) ==
    LET r == expect(toks, pos, "Number")
    IN  IF ~IsOk(r.res) THEN r
        ELSE LET n == u32_from_str(r.res[2].bytes)
             IN  IF n[1] = "Ok" THEN Ret(Ok(n[2]), r.pos)
                 ELSE Ret(Err(Token_error(r.res[2], "Expected a number")), r.pos)

\* Byte texts of the decoder's grammar
Underscore == 95

(***************************************************************************)
(* AssembleImm<Local> (assemble/assemble_imm.rs)                           *)
(***************************************************************************)

\* DeclMap::get
DeclMap_get(dm, v) == IF v \in DOMAIN dm THEN Some(dm[v]) ELSE None

\* The Local decoder looking the number of _N up in the local table.
assemble_local_checked(toks, pos, dm, dbg) ==
    LET n == Lexer_next(toks, pos)
    IN  IF n.tok = None THEN Ret(Err(Lexer_error(toks, "Expected local")), n.pos)
        ELSE LET tok == n.tok[2]
             IN  CASE tok.kind = "Variable" ->
                        IF from_utf8(tok.bytes) = None
                          THEN Ret(Err(ForeignError("Utf8Error")), n.pos)
                        ELSE IF DeclMap_get(dm, tok.bytes) # None
                          THEN Ret(Ok(<<"Local", DeclMap_get(dm, tok.bytes)[2]>>), n.pos)
                        ELSE Ret(Err(Token_error(tok, "Unknown local var")), n.pos)
                   [] tok.kind = "Identifier" ->
                        IF dbg /\ tok.bytes[1] # Underscore THEN Ret(Panic, n.pos)
                        ELSE IF from_utf8(Tail(tok.bytes)) = None
                          THEN Ret(Err(ForeignError("Utf8Error")), n.pos)
                        ELSE LET idx == u32_from_str(Tail(tok.bytes))
                             IN  IF idx[1] # "Ok"
                                   THEN Ret(Err(ForeignError("ParseIntError")), n.pos)
                                 ELSE IF \E v \in DOMAIN dm : dm[v] = idx[2]
                                   THEN Ret(Ok(<<"Local", idx[2]>>), n.pos)
                                 ELSE Ret(Err(Token_error(tok, "Unknown local")), n.pos)
                   [] OTHER -> Ret(Err(Token_error(tok, "Unknown local")), n.pos)

\* AssembleImm<Local>::assemble_imm
assemble_local(toks, pos, dm, dbg) ==
    LET n == Lexer_next(toks, pos)
    IN  IF n.tok = None THEN Ret(Err(Lexer_error(toks, "Expected local")), n.pos)
        ELSE LET tok == n.tok[2]
             IN  CASE tok.kind = "Variable" ->
                        IF from_utf8(tok.bytes) = None
                          THEN Ret(Err(ForeignError("Utf8Error")), n.pos)
                        ELSE IF DeclMap_get(dm, tok.bytes) # None
                          THEN Ret(Ok(<<"Local", DeclMap_get(dm, tok.bytes)[2]>>), n.pos)
                        ELSE Ret(Err(Token_error(tok, "Unknown local var")), n.pos)
                   [] tok.kind = "Identifier" ->
                        IF dbg /\ tok.bytes[1] # Underscore THEN Ret(Panic, n.pos)
                        ELSE IF from_utf8(Tail(tok.bytes)) = None
                          THEN Ret(Err(ForeignError("Utf8Error")), n.pos)
                        ELSE LET idx == u32_from_str(Tail(tok.bytes))
                             IN  IF idx[1] # "Ok"
                                   THEN Ret(Err(ForeignError("ParseIntError")), n.pos)
                                 ELSE Ret(Ok(<<"Local", idx[2]>>), n.pos)
                   [] OTHER -> Ret(Err(Token_error(tok, "Unknown local")), n.pos)

(***************************************************************************)
(* AssembleImm<ReadonlyOp>, payloads and AssembleImm<MemberKey>            *)
(***************************************************************************)

\* assemble_imm_for_enum!(hhbc::ReadonlyOp, [...]): the names of the variants
\* Any CheckMutROCOW CheckROCOW Mutable Readonly
ReadonlyOps ==
    { <<65, 110, 121>>,
      <<67, 104, 101, 99, 107, 77, 117, 116, 82, 79, 67, 79, 87>>,
      <<67, 104, 101, 99, 107, 82, 79, 67, 79, 87>>,
      <<77, 117, 116, 97, 98, 108, 101>>,
      <<82, 101, 97, 100, 111, 110, 108, 121>> }

\* Token::into_identifier
into_identifier(tok) ==
    IF tok.kind = "Identifier" THEN Ok(tok.bytes)
    ELSE Err(Token_error(tok, "Expected an identifier"))

\* AssembleImm<ReadonlyOp>::assemble_imm: one identifier naming a variant
assemble_readonly_op(toks, pos) ==
    LET r == expect_token(toks, pos)
    IN  IF ~IsOk(r.res) THEN r
        ELSE IF ~IsOk(into_identifier(r.res[2])) THEN Ret(into_identifier(r.res[2]), r.pos)
        ELSE IF r.res[2].bytes \in ReadonlyOps THEN Ret(Ok(<<"ReadonlyOp", r.res[2].bytes>>), r.pos)
        ELSE Ret(Err(Token_error(r.res[2], "Expected a ReadonlyOp")), r.pos)

\* AssembleImm<StackIndex>::assemble_imm
assemble_stack_index(toks, pos) ==
    LET r == expect_and_get_number(toks, pos)
    IN  IF IsOk(r.res) THEN Ret(Ok(<<"StackIndex", r.res[2]>>), r.pos) ELSE r

\* The digits of i64::MAX, 9223372036854775807
I64MaxDigits == <<57, 50, 50, 51, 51, 55, 50, 48, 51, 54, 56, 53, 52, 55, 55, 53, 56, 48, 55>>

\* The digits of a number without its leading zeros
RECURSIVE TrimZeros(_)
TrimZeros(ds) == IF Len(ds) > 1 /\ ds[1] = 48 THEN TrimZeros(Tail(ds)) ELSE ds

\* Whether the digits ds spell a number above limit + extra, extra being 0 or 1
ExceedsDigits(ds, limit, extra) ==
    \/ Len(ds) > Len(limit)
    \/ /\ Len(ds) = Len(limit)
       /\ \/ \E i \in 1 .. Len(ds) - 1 :
                 ds[i] > limit[i] /\ \A j \in 1 .. i - 1 : ds[j] = limit[j]
          \/ /\ \A j \in 1 .. Len(ds) - 1 : ds[j] = limit[j]
             /\ ds[Len(ds)] > limit[Len(ds)] + extra

\* i64::from_str: an optional sign, digits, and the range check
i64_from_str(bs) ==
    IF bs = <<>> THEN <<"Empty">>
    ELSE LET neg == Head(bs) = 45
             ds  == IF Head(bs) \in {43, 45} THEN Tail(bs) ELSE bs
         IN  IF ds = <<>> \/ \E i \in 1 .. Len(ds) : ~IsDigit(ds[i]) THEN <<"InvalidDigit">>
             ELSE IF ExceedsDigits(TrimZeros(ds), I64MaxDigits, IF neg THEN 1 ELSE 0)
               THEN IF neg THEN <<"NegOverflow">> ELSE <<"PosOverflow">>
             ELSE <<"Ok", [neg |-> neg /\ TrimZeros(ds) # <<48>>, digits |-> TrimZeros(ds)]>>

\* Lexer::expect_and_get_number::<i64>
expect_and_get_i64(toks, pos) ==
    LET r == expect(toks, pos, "Number")
    IN  IF ~IsOk(r.res) THEN r
        ELSE LET n == i64_from_str(r.res[2].bytes)
             IN  IF n[1] = "Ok" THEN Ret(Ok(<<"Int", n[2]>>), r.pos)
                 ELSE Ret(Err(Token_error(r.res[2], "Expected a number")), r.pos)

\* The quote and the backslash
Quote == 34

Backslash == 92

\* escaper::unquote_slice: the bytes between a leading and a trailing quote
unquote_slice(bs) ==
    IF Len(bs) >= 2 /\ bs[1] = Quote /\ bs[Len(bs)] = Quote
      THEN SubSeq(bs, 2, Len(bs) - 1) ELSE bs

\* escaper::unescape_literal_bytes_into_vec_bytes, for the escapes \\ and \n
RECURSIVE unescape(_)
unescape(bs) ==
    IF bs = <<>> THEN Ok(<<>>)
    ELSE IF Head(bs) # Backslash THEN
        LET r == unescape(Tail(bs))
        IN  IF IsOk(r) THEN Ok(<<Head(bs)>> \o r[2]) ELSE r
    ELSE IF Len(bs) >= 2 /\ bs[2] \in {Backslash, 110} THEN
        LET r == unescape(SubSeq(bs, 3, Len(bs)))
        IN  IF IsOk(r) THEN Ok(<<IF bs[2] = 110 THEN 10 ELSE Backslash>> \o r[2]) ELSE r
    ELSE Err(ForeignError("InvalidString"))

\* The ET payload: a string literal, unquoted, unescaped and interned
assemble_str_payload(toks, pos) ==
    LET r == expect(toks, pos, "StrLiteral")
    IN  IF ~IsOk(r.res) THEN r
        ELSE LET u == unescape(unquote_slice(r.res[2].bytes))
             IN  IF IsOk(u) THEN Ret(Ok(<<"Str", u[2]>>), r.pos) ELSE Ret(u, r.pos)

\* assemble::assemble_prop_name_from_str
assemble_prop_name_from_str(toks, pos) ==
    LET r == expect(toks, pos, "StrLiteral")
    IN  IF ~IsOk(r.res) THEN r
        ELSE LET u == unescape(unquote_slice(r.res[2].bytes))
             IN  IF IsOk(u) THEN Ret(Ok(<<"PropName", u[2]>>), r.pos) ELSE Ret(u, r.pos)

\* The tags of the member keys: EC EL ET EI PC PL PT QT, and W
TagEC == <<69, 67>>

TagEL == <<69, 76>>

TagET == <<69, 84>>

TagEI == <<69, 73>>

TagPC == <<80, 67>>

TagPL == <<80, 76>>

TagPT == <<80, 84>>

TagQT == <<81, 84>>

TagW == <<87>>

\* The payload decoder of a tag
assemble_payload(tag, toks, pos, dm, dbg) ==
    CASE tag \in {TagEC, TagPC} -> assemble_stack_index(toks, pos)
      [] tag \in {TagEL, TagPL} -> assemble_local(toks, pos, dm, dbg)
      [] tag = TagET -> assemble_str_payload(toks, pos)
      [] tag = TagEI -> expect_and_get_i64(toks, pos)
      [] tag \in {TagPT, TagQT} -> assemble_prop_name_from_str(toks, pos)

\* hhbc::MemberKey::W and the variants that carry a payload and an operator
MemberKey_W == <<"MemberKey", [tag |-> TagW]>>

MemberKey(tag, payload, op) == <<"MemberKey", [tag |-> tag, payload |-> payload, op |-> op]>>

\* The MemberKey decoder reading the operator before the payload.
assemble_member_key_op_first(toks, pos, dm, dbg) ==
    LET t == expect_token(toks, pos)
    IN  IF ~IsOk(t.res) THEN t
        ELSE IF ~IsOk(into_identifier(t.res[2])) THEN Ret(into_identifier(t.res[2]), t.pos)
        ELSE LET tag == t.res[2].bytes
             IN  IF tag = TagW THEN Ret(Ok(MemberKey_W), t.pos)
                 ELSE IF tag \notin {TagEC, TagEL, TagET, TagEI, TagPC, TagPL, TagPT, TagQT}
                   THEN Ret(Err(Token_error(t.res[2], "Expected a MemberKey")), t.pos)
                 ELSE LET c == expect(toks, t.pos, "Colon")
                      IN  IF ~IsOk(c.res) THEN c
                          ELSE LET o == assemble_readonly_op(toks, c.pos)
                               IN  IF ~IsOk(o.res) THEN o
                                   ELSE LET p == assemble_payload(tag, toks, o.pos, dm, dbg)
                                        IN  IF ~IsOk(p.res) THEN p
                                            ELSE Ret(Ok(MemberKey(tag, p.res[2], o.res[2])), p.pos)

\* AssembleImm<MemberKey>::assemble_imm
assemble_member_key(toks, pos, dm, dbg) ==
    LET t == expect_token(toks, pos)
    IN  IF ~IsOk(t.res) THEN t
        ELSE IF ~IsOk(into_identifier(t.res[2])) THEN Ret(into_identifier(t.res[2]), t.pos)
        ELSE LET tag == t.res[2].bytes
             IN  IF tag = TagW THEN Ret(Ok(MemberKey_W), t.pos)
                 ELSE IF tag \notin {TagEC, TagEL, TagET, TagEI, TagPC, TagPL, TagPT, TagQT}
                   THEN Ret(Err(Token_error(t.res[2], "Expected a MemberKey")), t.pos)
                 ELSE LET c == expect(toks, t.pos, "Colon")
                      IN  IF ~IsOk(c.res) THEN c
                          ELSE LET p == assemble_payload(tag, toks, c.pos, dm, dbg)
                               IN  IF ~IsOk(p.res) THEN p
                                   ELSE LET o == assemble_readonly_op(toks, p.pos)
                                        IN  IF ~IsOk(o.res) THEN o
                                            ELSE Ret(Ok(MemberKey(tag, p.res[2], o.res[2])), o.pos)

(***************************************************************************)
(* AssembleImm<AdataId> (assemble/assemble_imm.rs)                         *)
(***************************************************************************)

\* '@', the first byte of a global token
AtSign == 64

\* AssembleImm<AdataId>::assemble_imm
assemble_adata_id(toks, pos, dbg) ==
    LET r == expect(toks, pos, "Global")
    IN  IF ~IsOk(r.res) THEN r
        ELSE LET g == r.res[2].bytes
             IN  IF dbg /\ g[1] # AtSign THEN Ret(Panic, r.pos)
                 ELSE IF from_utf8(Tail(g)) = None
                   THEN Ret(Err(ForeignError("Utf8Error")), r.pos)
                 ELSE IF AdataId_parse(Tail(g))[1] # "Ok"
                   THEN Ret(Err(ForeignError("ParseIntError")), r.pos)
                 ELSE Ret(Ok(<<"AdataId", AdataId_parse(Tail(g))[2]>>), r.pos)

(***************************************************************************)
(* AssembleImm<IterArgs> (assemble/assemble_imm.rs)                        *)
(***************************************************************************)

\* hhbc::Local::INVALID, the marker of a missing key local
Local_INVALID == <<"Local", U32Max>>

\* The keywords NK, K and V
KwNK == <<78, 75>>

KwK == <<75>>

KwV == <<86>>

\* Lexer::expect_str(Token::is_identifier, s)
expect_str(toks, pos, s) ==
    LET r == expect(toks, pos, "Identifier")
    IN  IF ~IsOk(r.res) THEN r
        ELSE IF r.res[2].bytes = s THEN r
        ELSE Ret(Err(Token_error(r.res[2], "Expected the given identifier")), r.pos)

\* hhbc::IterArgs { iter_id, key_id, val_id }
IterArgs(idx, key, val) ==
    <<"IterArgs", [iter_id |-> idx, key_id |-> key, val_id |-> val]>>

\* The key decoder answering a failed local with the marker.
assemble_key_id_swallows_error(toks, pos, dm, dbg) ==
    LET t == expect_token(toks, pos)
    IN  IF ~IsOk(t.res) THEN t
        ELSE IF ~IsOk(into_identifier(t.res[2])) THEN Ret(into_identifier(t.res[2]), t.pos)
        ELSE IF t.res[2].bytes = KwNK THEN Ret(Ok(Local_INVALID), t.pos)
        ELSE IF t.res[2].bytes = KwK THEN
            LET c == expect(toks, t.pos, "Colon")
                l == assemble_local(toks, c.pos, dm, dbg)
            IN  IF ~IsOk(c.res) THEN c
                ELSE IF IsOk(l.res) THEN l ELSE Ret(Ok(Local_INVALID), c.pos)
        ELSE Ret(Err(Token_error(t.res[2], "Invalid key_id given as iter args to IterArg")), t.pos)

\* The key of IterArgs: NK, or K, a colon and a local
assemble_key_id(toks, pos, dm, dbg) ==
    LET t == expect_token(toks, pos)
    IN  IF ~IsOk(t.res) THEN t
        ELSE IF ~IsOk(into_identifier(t.res[2])) THEN Ret(into_identifier(t.res[2]), t.pos)
        ELSE IF t.res[2].bytes = KwNK THEN Ret(Ok(Local_INVALID), t.pos)
        ELSE IF t.res[2].bytes = KwK THEN
            LET c == expect(toks, t.pos, "Colon")
            IN  IF ~IsOk(c.res) THEN c ELSE assemble_local(toks, c.pos, dm, dbg)
        ELSE Ret(Err(Token_error(t.res[2], "Invalid key_id given as iter args to IterArg")), t.pos)

\* The IterArgs decoder answering a failed key local with the marker.
assemble_iter_args_key_defaulted(toks, pos, dm, dbg) ==
    LET n == expect_and_get_number(toks, pos)
    IN  IF ~IsOk(n.res) THEN n
        ELSE LET k0 == assemble_key_id(toks, n.pos, dm, dbg)
                 k  == IF IsOk(k0.res) THEN k0 ELSE Ret(Ok(Local_INVALID), k0.pos)
             IN  LET v == expect_str(toks, k.pos, KwV)
                 IN  IF ~IsOk(v.res) THEN v
                     ELSE LET c == expect(toks, v.pos, "Colon")
                          IN  IF ~IsOk(c.res) THEN c
                              ELSE LET l == assemble_local(toks, c.pos, dm, dbg)
                                   IN  IF ~IsOk(l.res) THEN l
                                       ELSE Ret(Ok(IterArgs(n.res[2], k.res[2], l.res[2])), l.pos)

\* AssembleImm<IterArgs>::assemble_imm
assemble_iter_args(toks, pos, dm, dbg) ==
    LET n == expect_and_get_number(toks, pos)
    IN  IF ~IsOk(n.res) THEN n
        ELSE LET k == assemble_key_id(toks, n.pos, dm, dbg)
             IN  IF ~IsOk(k.res) THEN k
                 ELSE LET v == expect_str(toks, k.pos, KwV)
                      IN  IF ~IsOk(v.res) THEN v
                          ELSE LET c == expect(toks, v.pos, "Colon")
                               IN  IF ~IsOk(c.res) THEN c
                                   ELSE LET l == assemble_local(toks, c.pos, dm, dbg)
                                        IN  IF ~IsOk(l.res) THEN l
                                            ELSE Ret(Ok(IterArgs(n.res[2], k.res[2], l.res[2])), l.pos)

(***************************************************************************)
(* AssembleImm<Vector<Label>> and AssembleImm<Vector<Str>>                 *)
(***************************************************************************)

\* Lexer::peek_is(Token::is_<kind>): the next token is of the kind
peek_is(toks, pos, kind) == pos < Len(toks) /\ toks[pos + 1].kind = kind

\* assemble::assemble_label: an identifier L<n> or DV<n>
assemble_label(toks, pos) ==
    LET r == expect(toks, pos, "Identifier")
    IN  IF ~IsOk(r.res) THEN r
        ELSE LET b == r.res[2].bytes
                 n == IF b[1] = 76 THEN u32_from_str(Tail(b))
                      ELSE IF Len(b) >= 2 /\ b[1] = 68 /\ b[2] = 86
                        THEN u32_from_str(SubSeq(b, 3, Len(b)))
                      ELSE <<"InvalidDigit">>
             IN  IF n[1] = "Ok" THEN Ret(Ok(<<"Label", n[2]>>), r.pos)
                 ELSE Ret(Err(Token_error(r.res[2], "Expected a label")), r.pos)

\* assemble::assemble_unescaped_unquoted_str
assemble_unescaped_unquoted_str(toks, pos) ==
    LET r == expect(toks, pos, "StrLiteral")
    IN  IF ~IsOk(r.res) THEN r
        ELSE LET u == unescape(unquote_slice(r.res[2].bytes))
             IN  IF IsOk(u) THEN Ret(Ok(<<"Str", u[2]>>), r.pos) ELSE Ret(u, r.pos)

\* The item decoder of a list
assemble_item(kind, toks, pos) ==
    IF kind = "Labels" THEN assemble_label(toks, pos)
    ELSE assemble_unescaped_unquoted_str(toks, pos)

(***************************************************************************)
(* Decoding one operand from a token stream                                *)
(***************************************************************************)

\* $a and $b, the declared locals
VarA == <<36, 97>>

VarB == <<36, 98>>

\* DeclMap: {$a: 0, $b: 1}
LocalTable ==
    [v \in {VarA, VarB} |-> IF v = VarA THEN [hi |-> 0, lo |-> 0] ELSE [hi |-> 0, lo |-> 1]]

\* Tokens a Local is decoded from:
\* $a $b $z $<ff> | _3 _0 _007 _4294967295 _4294967296 _x _ _<ff> x3 | 5 :
LocalToks ==
    { Tok("Variable", VarA), Tok("Variable", VarB), Tok("Variable", <<36, 122>>),
      Tok("Variable", <<36, 255>>),
      Tok("Identifier", <<95, 51>>), Tok("Identifier", <<95, 48>>),
      Tok("Identifier", <<95, 48, 48, 55>>),
      Tok("Identifier", <<95, 52, 50, 57, 52, 57, 54, 55, 50, 57, 53>>),
      Tok("Identifier", <<95, 52, 50, 57, 52, 57, 54, 55, 50, 57, 54>>),
      Tok("Identifier", <<95, 120>>), Tok("Identifier", <<95>>),
      Tok("Identifier", <<95, 255>>), Tok("Identifier", <<120, 51>>),
      Tok("Number", <<53>>), Tok("Colon", <<58>>) }

\* The streams a Local is decoded from: up to two tokens
LocalStreams ==
    {<<>>} \cup { <<a>> : a \in LocalToks } \cup { <<a, b>> : a \in LocalToks, b \in LocalToks }

\* First tokens of a member key: the nine tags, and ec XX Any, 5, $a
MkFirst ==
    { Tok("Identifier", t) :
        t \in { TagEC, TagEL, TagET, TagEI, TagPC, TagPL, TagPT, TagQT, TagW,
                <<101, 99>>, <<88, 88>>, <<65, 110, 121>> } }
    \cup { Tok("Number", <<53>>), Tok("Variable", VarA) }

\* Second tokens: the colon, or <
MkSecond == { Tok("Colon", <<58>>), Tok("Lt", <<60>>) }

\* Payload tokens: 5 007 4294967296 -7 12x | $a $z _3 | "k" "a\nb" "\q" | Any
MkPayload ==
    { Tok("Number", <<53>>), Tok("Number", <<48, 48, 55>>),
      Tok("Number", <<52, 50, 57, 52, 57, 54, 55, 50, 57, 54>>),
      Tok("Number", <<45, 55>>), Tok("Number", <<49, 50, 120>>),
      Tok("Variable", VarA), Tok("Variable", <<36, 122>>), Tok("Identifier", <<95, 51>>),
      Tok("StrLiteral", <<34, 107, 34>>), Tok("StrLiteral", <<34, 97, 92, 110, 98, 34>>),
      Tok("StrLiteral", <<34, 92, 113, 34>>),
      Tok("Identifier", <<65, 110, 121>>) }

\* Operator tokens: the five operators, and any Bogus, :
MkOp ==
    { Tok("Identifier", o) : o \in ReadonlyOps }
    \cup { Tok("Identifier", <<97, 110, 121>>), Tok("Identifier", <<66, 111, 103, 117, 115>>),
           Tok("Colon", <<58>>) }

\* What may follow the operand: >
MkRest == { Tok("Gt", <<62>>) }

\* The streams a MemberKey is decoded from: a first, a second, a payload and
\* an operator token and one more token, cut at any length
MkStreams ==
    { SubSeq(<<a, b, c, d, e>>, 1, n) :
        a \in MkFirst, b \in MkSecond, c \in MkPayload, d \in MkOp, e \in MkRest, n \in 0 .. 5 }

\* Tokens an AdataId is decoded from:
\* @A_42 @A_0 @A_4294967295 @A_ @B_1 @A_4294967296 @A_x @A_<ff> @ | A_42 :
AdataToks ==
    { Tok("Global", <<64, 65, 95, 52, 50>>), Tok("Global", <<64, 65, 95, 48>>),
      Tok("Global", <<64, 65, 95, 52, 50, 57, 52, 57, 54, 55, 50, 57, 53>>),
      Tok("Global", <<64, 65, 95>>), Tok("Global", <<64, 66, 95, 49>>),
      Tok("Global", <<64, 65, 95, 52, 50, 57, 52, 57, 54, 55, 50, 57, 54>>),
      Tok("Global", <<64, 65, 95, 120>>), Tok("Global", <<64, 65, 95, 255>>),
      Tok("Global", <<64>>),
      Tok("Identifier", <<65, 95, 52, 50>>), Tok("Colon", <<58>>) }

\* The streams an AdataId is decoded from: up to two tokens
AdataStreams ==
    {<<>>} \cup { <<a>> : a \in AdataToks } \cup { <<a, b>> : a \in AdataToks, b \in AdataToks }

\* Locals of an IterArgs: $a $z _3 x3
ItLocals ==
    { Tok("Variable", VarA), Tok("Variable", <<36, 122>>), Tok("Identifier", <<95, 51>>),
      Tok("Identifier", <<120, 51>>) }

\* The index: 0 7, and 4294967296 NK
ItIndex ==
    { <<Tok("Number", <<48>>)>>, <<Tok("Number", <<55>>)>>,
      <<Tok("Number", <<52, 50, 57, 52, 57, 54, 55, 50, 57, 54>>)>>, <<>> }

\* The key: NK | K : local | K local | nk | k : local | V | 5
ItKey ==
    { <<Tok("Identifier", KwNK)>>, <<Tok("Identifier", <<110, 107>>)>>,
      <<Tok("Identifier", KwV)>>, <<Tok("Number", <<53>>)>> }
    \cup { <<Tok("Identifier", KwK), Tok("Colon", <<58>>), l>> : l \in ItLocals }
    \cup { <<Tok("Identifier", KwK), l>> : l \in ItLocals }
    \cup { <<Tok("Identifier", <<107>>), Tok("Colon", <<58>>), Tok("Variable", VarA)>> }

\* The value: V : local | V local | v : local | K : local | : local
ItValue ==
    { <<Tok("Identifier", KwV), Tok("Colon", <<58>>), l>> : l \in ItLocals }
    \cup { <<Tok("Identifier", KwV), l>> : l \in ItLocals }
    \cup { <<Tok("Identifier", <<118>>), Tok("Colon", <<58>>), Tok("Variable", VarA)>>,
           <<Tok("Identifier", KwK), Tok("Colon", <<58>>), Tok("Variable", VarA)>>,
           <<Tok("Colon", <<58>>), Tok("Variable", VarA)>> }

\* The first n tokens of a stream, or all of it
Cut(s, n) == SubSeq(s, 1, IF n < Len(s) THEN n ELSE Len(s))

\* The streams an IterArgs is decoded from: an index, a key, a value and one
\* more token, cut at any length
IterStreams ==
    { Cut(i \o k \o v \o <<e>>, n) :
        i \in ItIndex, k \in ItKey, v \in ItValue, e \in MkRest, n \in 0 .. 8 }

\* How many items the lists of the streams hold at most
MaxItems == 2

\* Items of a label list: L0 L12 DV1 | Lx 5 <
LabelToks ==
    { Tok("Identifier", <<76, 48>>), Tok("Identifier", <<76, 49, 50>>),
      Tok("Identifier", <<68, 86, 49>>), Tok("Identifier", <<76, 120>>),
      Tok("Number", <<53>>), Tok("Lt", <<60>>) }

\* Items of a string list: "k" "a\nb" | "\q" L0 <
StrToks ==
    { Tok("StrLiteral", <<34, 107, 34>>), Tok("StrLiteral", <<34, 97, 92, 110, 98, 34>>),
      Tok("StrLiteral", <<34, 92, 113, 34>>), Tok("Identifier", <<76, 48>>),
      Tok("Lt", <<60>>) }

\* The streams a list is decoded from: < or another token or nothing, up to
\* MaxItems items, and then >, > and one more token, or the end of the input
ListStreams(items) ==
    { open \o body \o close :
        open \in { <<Tok("Lt", <<60>>)>>, <<Tok("Gt", <<62>>)>>, <<>> },
        body \in UNION { [1 .. n -> items] : n \in 0 .. MaxItems },
        close \in { <<Tok("Gt", <<62>>)>>, <<Tok("Gt", <<62>>), Tok("Gt", <<62>>)>>,
                    <<Tok("Gt", <<62>>), Tok("Lt", <<60>>)>>, <<>> } }

\* A lexer at the start of a stream, the local table of the function being
\* assembled, and the build: with or without debug assertions
DecInit ==
    /\ \/ dKind = "Local" /\ lexToks \in { MkStream(s) : s \in LocalStreams }
       \/ dKind = "MemberKey" /\ lexToks \in { MkStream(s) : s \in MkStreams }
       \/ dKind = "AdataId" /\ lexToks \in { MkStream(s) : s \in AdataStreams }
       \/ dKind = "IterArgs" /\ lexToks \in { MkStream(s) : s \in IterStreams }
       \/ dKind = "Labels" /\ lexToks \in { MkStream(s) : s \in ListStreams(LabelToks) }
       \/ dKind = "Strs" /\ lexToks \in { MkStream(s) : s \in ListStreams(StrToks) }
    /\ lexPos = 0
    /\ decl_map = LocalTable
    /\ dPc = "start"
    /\ dOut = <<>>
    /\ dItems = <<>>
    /\ debug_assertions \in BOOLEAN
    /\ VidIdle /\ NameIdle /\ ConvIdle /\ TvIdle /\ CacheIdle /\ AdataIdle

\* self.assemble_imm(alloc, decl_map) for a Local
AssembleLocal ==
    /\ dPc = "start" /\ dKind = "Local"
    /\ LET r == assemble_local(lexToks, lexPos, decl_map, debug_assertions)
       IN  dOut' = r.res /\ lexPos' = r.pos
    /\ dPc' = "done"
    /\ UNCHANGED <<lexToks, decl_map, dKind, dItems, debug_assertions>>
    /\ UNCHANGED <<vidVars, nameVars, convVars, tvVars, cacheVars, adataVars>>

\* self.assemble_imm(alloc, decl_map) for a MemberKey
AssembleMemberKey ==
    /\ dPc = "start" /\ dKind = "MemberKey"
    /\ LET r == assemble_member_key(lexToks, lexPos, decl_map, debug_assertions)
       IN  dOut' = r.res /\ lexPos' = r.pos
    /\ dPc' = "done"
    /\ UNCHANGED <<lexToks, decl_map, dKind, dItems, debug_assertions>>
    /\ UNCHANGED <<vidVars, nameVars, convVars, tvVars, cacheVars, adataVars>>

\* self.assemble_imm(alloc, decl_map) for an AdataId
AssembleAdataId ==
    /\ dPc = "start" /\ dKind = "AdataId"
    /\ LET r == assemble_adata_id(lexToks, lexPos, debug_assertions)
       IN  dOut' = r.res /\ lexPos' = r.pos
    /\ dPc' = "done"
    /\ UNCHANGED <<lexToks, decl_map, dKind, dItems, debug_assertions>>
    /\ UNCHANGED <<vidVars, nameVars, convVars, tvVars, cacheVars, adataVars>>

\* self.assemble_imm(alloc, decl_map) for an IterArgs
AssembleIterArgs ==
    /\ dPc = "start" /\ dKind = "IterArgs"
    /\ LET r == assemble_iter_args(lexToks, lexPos, decl_map, debug_assertions)
       IN  dOut' = r.res /\ lexPos' = r.pos
    /\ dPc' = "done"
    /\ UNCHANGED <<lexToks, decl_map, dKind, dItems, debug_assertions>>
    /\ UNCHANGED <<vidVars, nameVars, convVars, tvVars, cacheVars, adataVars>>

\* A list decoder at self.expect(Token::is_lt)?
ListOpen ==
    /\ dPc = "start" /\ dKind \in {"Labels", "Strs"}
    /\ LET r == expect(lexToks, lexPos, "Lt")
       IN  /\ lexPos' = r.pos
           /\ IF IsOk(r.res) THEN dPc' = "loop" /\ dOut' = dOut
              ELSE dPc' = "done" /\ dOut' = r.res
    /\ UNCHANGED <<lexToks, decl_map, dKind, dItems, debug_assertions>>
    /\ UNCHANGED <<vidVars, nameVars, convVars, tvVars, cacheVars, adataVars>>

\* A turn of the loop that leaves an item it cannot decode where it is.
ListItem_skips_failure ==
    /\ dPc = "loop" /\ ~peek_is(lexToks, lexPos, "Gt")
    /\ LET r == assemble_item(dKind, lexToks, lexPos)
       IN  IF IsOk(r.res)
             THEN dItems' = Append(dItems, r.res[2]) /\ lexPos' = r.pos
             ELSE dItems' = dItems /\ lexPos' = lexPos
    /\ UNCHANGED <<dPc, dOut, lexToks, decl_map, dKind, debug_assertions>>
    /\ UNCHANGED <<vidVars, nameVars, convVars, tvVars, cacheVars, adataVars>>

\* A turn of `while !self.peek_is(Token::is_gt) { v.push(item?) }`
ListItem ==
    /\ dPc = "loop" /\ ~peek_is(lexToks, lexPos, "Gt")
    /\ LET r == assemble_item(dKind, lexToks, lexPos)
       IN  /\ lexPos' = r.pos
           /\ IF IsOk(r.res)
                THEN dItems' = Append(dItems, r.res[2]) /\ dPc' = dPc /\ dOut' = dOut
                ELSE dItems' = dItems /\ dPc' = "done" /\ dOut' = r.res
    /\ UNCHANGED <<lexToks, decl_map, dKind, debug_assertions>>
    /\ UNCHANGED <<vidVars, nameVars, convVars, tvVars, cacheVars, adataVars>>

\* The loop's exit: self.expect(Token::is_gt)? and Ok(v.into())
ListClose ==
    /\ dPc = "loop" /\ peek_is(lexToks, lexPos, "Gt")
    /\ LET r == expect(lexToks, lexPos, "Gt")
       IN  /\ lexPos' = r.pos
           /\ dOut' = IF IsOk(r.res) THEN Ok(<<"Vector", dItems>>) ELSE r.res
    /\ dPc' = "done"
    /\ UNCHANGED <<lexToks, decl_map, dKind, dItems, debug_assertions>>
    /\ UNCHANGED <<vidVars, nameVars, convVars, tvVars, cacheVars, adataVars>>

DecNext ==
    \/ AssembleLocal \/ AssembleMemberKey \/ AssembleAdataId \/ AssembleIterArgs
    \/ ListOpen \/ ListItem \/ ListClose

SpecDec == DecInit /\ [][DecNext]_vars

\* A list decoder called at the start of a stream
ListInit == DecInit /\ dKind \in {"Labels", "Strs"}

ListNext == ListOpen \/ ListItem \/ ListClose

\* The list decoders alone, and running on: a step that can be taken is taken
SpecList == ListInit /\ [][ListNext]_vars

LiveList == SpecList /\ WF_vars(ListNext)

(***************************************************************************)
(* Claims about FunctionName                                               *)
(***************************************************************************)

IsAsciiLetter(b) == (65 <= b /\ b <= 90) \/ (97 <= b /\ b <= 122)

\* Two bytes are the same, or the two cases of one ASCII letter.
SameByteUpToCase(x, y) ==
    \/ x = y
    \/ IsAsciiLetter(x) /\ IsAsciiLetter(y) /\ (x - y = 32 \/ y - x = 32)

\* Two texts differ in nothing but ASCII letter case.
SameUpToCase(s, t) ==
    /\ Len(s) = Len(t)
    /\ \A i \in 1 .. Len(s) : SameByteUpToCase(s[i], t[i])

\* C5: two function names are equal if and only if their texts match up to
\* ASCII letter case, whichever handles they hold.
C5_EqIffSameUpToCase ==
    lastCmp # NoCmp =>
        (lastCmp.eq <=> SameUpToCase(as_str(lastCmp.a), as_str(lastCmp.b)))

\* Witness of C5: two names with different handles were compared and found equal.
C5_Witness == lastCmp # NoCmp /\ lastCmp.a # lastCmp.b /\ lastCmp.eq

\* C6: function names that compare equal hash alike, so a hash set handed
\* both keeps one entry of them.
C6_HashAgreesWithEq ==
    /\ \A a \in hIns, b \in hIns :
           FunctionName_eq(a, b) => FunctionName_hash(a) = FunctionName_hash(b)
    /\ \A a \in hset, b \in hset : FunctionName_eq(a, b) => a = b

\* C7: an ordered set of function names holds exactly one entry for each
\* case-insensitive class of the names inserted, whatever the order in which
\* they were interned and inserted.
C7_OneEntryPerClass ==
    /\ \A i \in 1 .. Len(bset), j \in 1 .. Len(bset) :
           SameUpToCase(as_str(bset[i]), as_str(bset[j])) => i = j
    /\ \A n \in bIns : \E i \in 1 .. Len(bset) :
           SameUpToCase(as_str(n), as_str(bset[i]))

(***************************************************************************)
(* Claims about the unit converters                                        *)
(***************************************************************************)

\* A persisted unit whose names are text and whose adata references are in
\* the pool.
NamesOf(u) ==
    { u.classes[i].name : i \in 1 .. Len(u.classes) }
    \cup { u.functions[i].name : i \in 1 .. Len(u.functions) }
    \cup { u.constants[i].name : i \in 1 .. Len(u.constants) }
    \cup { u.modules[i].name : i \in 1 .. Len(u.modules) }
    \cup { u.typedefs[i].name : i \in 1 .. Len(u.typedefs) }

WellFormed(u) ==
    /\ \A n \in NamesOf(u) : ValidUtf8(n)
    /\ \A i \in 1 .. Len(u.functions) : \A k \in 1 .. Len(u.functions[i].adata) :
           u.functions[i].adata[k] \in 0 .. Len(u.adata) - 1

\* The constants a function's body refers to, read through the unit's pool.
ConstsOf(u, i) ==
    [k \in 1 .. Len(u.functions[i].adata) |-> u.adata[u.functions[i].adata[k] + 1]]

NoDuplicates(xs) == \A i \in 1 .. Len(xs), j \in 1 .. Len(xs) : xs[i] = xs[j] => i = j

\* C8: for a well-formed unit, bc_to_ir followed by ir_to_bc returns a unit
\* with the same classes, the same top-level constants and the same functions
\* in the same order, each function referring to the same constants; only the
\* constant pool differs, by being deduplicated and renumbered.
C8_RoundTrip ==
    (cPc = "done" /\ WellFormed(unit)) =>
        /\ out.classes = unit.classes
        /\ out.constants = unit.constants
        /\ Len(out.functions) = Len(unit.functions)
        /\ \A i \in 1 .. Len(unit.functions) :
              /\ out.functions[i].name = unit.functions[i].name
              /\ \A k \in 1 .. Len(out.functions[i].adata) :
                     out.functions[i].adata[k] \in 0 .. Len(out.adata) - 1
              /\ ConstsOf(out, i) = ConstsOf(unit, i)
        /\ NoDuplicates(out.adata)
        /\ \A i \in 1 .. Len(out.adata) : \E j \in 1 .. Len(unit.adata) :
               out.adata[i] = unit.adata[j]

\* Witness of C8: a round trip of a unit with two classes, two functions that
\* refer to constants, top-level constants, and a pool that came back changed.
C8_Witness ==
    /\ cPc = "done"
    /\ Len(unit.classes) = 2 /\ Len(unit.functions) = 2
    /\ \A i \in 1 .. 2 : unit.functions[i].adata # <<>>
    /\ unit.constants # <<>>
    /\ out.adata # unit.adata

\* C9: after the round trip the missing-symbol set, the error-symbol set, the
\* UTF-8 flag, the offset of the first invalid byte, the module use, the
\* symbol references and every module (exports and imports included) equal
\* those of the original unit.
C9_FrameFieldsPreserved ==
    cPc = "done" =>
        /\ out.missing_symbols = unit.missing_symbols
        /\ out.error_symbols = unit.error_symbols
        /\ out.valid_utf8 = unit.valid_utf8
        /\ out.invalid_utf8_offset = unit.invalid_utf8_offset
        /\ out.module_use = unit.module_use
        /\ out.symbol_refs = unit.symbol_refs
        /\ out.modules = unit.modules

Rank(e) ==
    CASE e[1] = "class" -> 1
      [] e[1] = "function" -> 2
      [] e[1] = "method" -> 3
      [] OTHER -> 4

ClassesBefore(p) == Cardinality({ q \in 1 .. p - 1 : log[q][1] = "class" })

MethodsTagged(i) == Cardinality({ q \in 1 .. Len(log) : log[q] = <<"method", i>> })

ForwardDone == cPc \notin {"bc_start", "bc_classes", "bc_functions", "bc_methods", "panic"}

\* C10: bc_to_ir converts every class container before any function and any
\* method, every function before any method, and the methods last, class by
\* class in unit order; each method is tagged with the index of its owning
\* class, and that index refers to a container the IR unit already holds.
C10_ForwardOrder ==
    /\ cPc # "panic"
    /\ \A p \in 1 .. Len(log), q \in 1 .. Len(log) :
           p < q =>
              /\ Rank(log[p]) <= Rank(log[q])
              /\ (Rank(log[p]) = Rank(log[q]) /\ Rank(log[p]) <= 3) => log[p][2] <= log[q][2]
    /\ \A p \in 1 .. Len(log) :
           log[p][1] = "method" =>
              /\ ClassesBefore(p) = Len(unit.classes)
              /\ log[p][2] < ClassesBefore(p)
    /\ cPc = "bc_methods" =>
           /\ Len(ir.classes) = Len(unit.classes)
           /\ Len(ir.functions) = Len(unit.functions)
    /\ ForwardDone =>
           \A i \in 1 .. Len(unit.classes) :
              /\ MethodsTagged(i - 1) = Len(unit.classes[i].methods)
              /\ [j \in 1 .. Len(ir.classes[i].methods) |->
                     ir.strings[ir.classes[i].methods[j].name]]
                 = [j \in 1 .. Len(unit.classes[i].methods) |->
                     unit.classes[i].methods[j].name]

\* Witness of C10: the forward conversion is through with a unit of two
\* classes that both have methods and of at least one function.
C10_Witness ==
    /\ cPc = "bc_fatal"
    /\ Len(unit.classes) = 2 /\ Len(unit.functions) >= 1
    /\ \A i \in 1 .. 2 : Len(unit.classes[i].methods) >= 1
    /\ Len(ir.classes[2].methods) >= 1

IrRank(e) ==
    CASE e[1] = "ir_class" -> 1
      [] e[1] = "ir_function" -> 2
      [] e[1] = "finish" -> 3
      [] e[1] = "field" -> 4
      [] OTHER -> 0

Logged(tag) == Cardinality({ p \in 1 .. Len(log) : log[p][1] = tag })

Finalized == Logged("finish") = 1

\* C11: ir_to_bc adds every class to the builder before any function, calls
\* finish() only when every class and every function has been added, writes
\* the remaining top-level fields only after finish(), and writing them
\* leaves the finished unit's classes, functions and constant pool as
\* finish() returned them.
C11_ReverseOrder ==
    /\ \A p \in 1 .. Len(log), q \in 1 .. Len(log) :
           p < q =>
              /\ IrRank(log[p]) <= IrRank(log[q])
              /\ (IrRank(log[p]) = IrRank(log[q]) /\ IrRank(log[p]) \in {1, 2})
                    => log[p][2] < log[q][2]
    /\ Logged("finish") <= 1
    /\ Logged("ir_function") > 0 => Logged("ir_class") = Len(ir.classes)
    /\ Finalized =>
           /\ Logged("ir_class") = Len(ir.classes)
           /\ Logged("ir_function") = Len(ir.functions)
           /\ Len(builder.classes) = Len(ir.classes)
           /\ Len(builder.functions) = Len(ir.functions)
           /\ out.classes = builder.classes
           /\ out.functions = builder.functions
           /\ out.adata = builder.adata_cache
    /\ ~Finalized => Logged("field") = 0

\* Witness of C11: the reverse conversion has returned a unit of two classes
\* and two functions after writing at least six of the remaining fields.
C11_Witness ==
    /\ cPc = "done"
    /\ Len(out.classes) = 2 /\ Len(out.functions) = 2
    /\ Logged("field") >= 6
    /\ out.typedefs # <<>> /\ out.constants # <<>>

FatalCopied(f, g) ==
    IF f[1] = "Just"
      THEN /\ g[1] = "Some"
           /\ g[2].op = f[2].op
           /\ g[2].loc = <<"SrcLoc", f[2].loc>>
           /\ g[2].message = f[2].message
      ELSE g[1] = "None"

ForwardReturned == ForwardDone /\ cPc # "bc_fatal"

\* C12: the Fatal record survives both conversions: after bc_to_ir the IR
\* unit holds a Fatal of the same kind, location and message bytes exactly
\* when the persisted unit held one, and after ir_to_bc the returned unit's
\* Fatal has the kind of the same name (Parse, Runtime or RuntimeOmitFrame),
\* the same location and the same message bytes; a unit without a Fatal
\* converts to one without.
C12_FatalSurvives ==
    /\ ForwardReturned => FatalCopied(unit.fatal, ir.fatal)
    /\ cPc = "done" =>
           /\ out.fatal = unit.fatal
           /\ ir.fatal[1] = "None" => out.fatal = Nothing
           /\ ir.fatal[1] = "Some" =>
                  /\ out.fatal[1] = "Just"
                  /\ out.fatal[2].op = ir.fatal[2].op
                  /\ out.fatal[2].op \in FatalOps
                  /\ out.fatal[2].loc = ir.fatal[2].loc[2]
                  /\ out.fatal[2].message = ir.fatal[2].message

\* Witness of C12: a unit whose Fatal is a RuntimeOmitFrame with a message
\* has been converted there and back.
C12_Witness ==
    /\ cPc = "done"
    /\ unit.fatal[1] = "Just"
    /\ unit.fatal[2].op = "RuntimeOmitFrame"
    /\ unit.fatal[2].message # <<>>
    /\ out.fatal[1] = "Just"

(***************************************************************************)
(* Claims about typed constants                                            *)
(***************************************************************************)

KeyCorresponds(k, o) ==
    CASE k[1] = "Int" -> o = <<"Int", k[2]>>
      [] k[1] = "String" -> o = <<"String", tvStrings[k[2]]>>
      [] k[1] = "LazyClass" -> o = <<"LazyClass", tvStrings[k[2]]>>

\* The persisted constant ov has the variant of the IR constant iv, the same
\* payload, and as many elements, each standing where its original stood.
RECURSIVE TvCorresponds(_, _)
TvCorresponds(iv, ov) ==
    CASE iv[1] \in {"String", "LazyClass"} -> ov = <<iv[1], tvStrings[iv[2]]>>
      [] iv[1] = "Vec" ->
            /\ ov[1] = "Vec" /\ Len(ov[2]) = Len(iv[2])
            /\ \A i \in 1 .. Len(iv[2]) : TvCorresponds(iv[2][i], ov[2][i])
      [] iv[1] = "Keyset" ->
            /\ ov[1] = "Keyset" /\ Len(ov[2]) = Len(iv[2])
            /\ \A i \in 1 .. Len(iv[2]) : KeyCorresponds(iv[2][i], ov[2][i])
      [] iv[1] = "Dict" ->
            /\ ov[1] = "Dict" /\ Len(ov[2]) = Len(iv[2])
            /\ \A i \in 1 .. Len(iv[2]) :
                   /\ KeyCorresponds(iv[2][i][1], ov[2][i].key)
                   /\ TvCorresponds(iv[2][i][2], ov[2][i].value)
      [] OTHER -> ov = iv

TvConverted == tvPc = "done" /\ ~IsPanic(tvOut)

\* C13: convert_typed_value keeps the structure at every depth: a Vec, a
\* Keyset and a Dict keep their length, the i-th element, key and value of
\* the result are the conversions of the i-th of the input (duplicate keys
\* included), scalars keep variant and payload; a persisted constant that
\* went to the IR and back is the constant it was.
C13_StructurePreserved ==
    TvConverted =>
        /\ TvCorresponds(tvIr, tvOut)
        /\ tvIn # <<>> => tvOut = tvIn

\* Witness of C13: a Vec of two elements, the first a Dict holding one key
\* twice, has been converted.
C13_Witness ==
    /\ TvConverted
    /\ tvOut[1] = "Vec" /\ Len(tvOut[2]) = 2
    /\ tvOut[2][1][1] = "Dict" /\ Len(tvOut[2][1][2]) = 2
    /\ tvOut[2][1][2][1].key = tvOut[2][1][2][2].key
    /\ tvOut[2][1][2][1].value # tvOut[2][1][2][2].value

KeyShapes == {"Int", "String", "LazyClass"}

\* Every key position of a persisted constant holds an Int, String or
\* LazyClass.
RECURSIVE KeysAreKeys(_)
KeysAreKeys(v) ==
    CASE v[1] = "Vec" -> \A i \in 1 .. Len(v[2]) : KeysAreKeys(v[2][i])
      [] v[1] = "Keyset" -> \A i \in 1 .. Len(v[2]) : v[2][i][1] \in KeyShapes
      [] v[1] = "Dict" ->
            \A i \in 1 .. Len(v[2]) :
                v[2][i].key[1] \in KeyShapes /\ KeysAreKeys(v[2][i].value)
      [] OTHER -> TRUE

RECURSIVE LazyIds(_)
LazyIds(tv) ==
    CASE tv[1] = "LazyClass" -> {tv[2]}
      [] tv[1] = "Vec" -> UNION { LazyIds(tv[2][i]) : i \in 1 .. Len(tv[2]) }
      [] tv[1] = "Keyset" -> UNION { LazyIds(tv[2][i]) : i \in 1 .. Len(tv[2]) }
      [] tv[1] = "Dict" ->
            UNION { LazyIds(tv[2][i][1]) \cup LazyIds(tv[2][i][2]) : i \in 1 .. Len(tv[2]) }
      [] OTHER -> {}

AttrTextIds(attrs) ==
    UNION { {attrs[i].name}
            \cup UNION { LazyIds(attrs[i].arguments[k]) : k \in 1 .. Len(attrs[i].arguments) } :
            i \in 1 .. Len(attrs) }

TextIds(u) ==
    UNION { {u.classes[i].name}
            \cup { u.classes[i].props[k].name : k \in 1 .. Len(u.classes[i].props) } :
            i \in 1 .. Len(u.classes) }
    \cup UNION { {u.functions[i].name}
                 \cup UNION { LazyIds(u.functions[i].consts[k]) :
                              k \in 1 .. Len(u.functions[i].consts) } :
                 i \in 1 .. Len(u.functions) }
    \cup UNION { {u.constants[i].name}
                 \cup (IF u.constants[i].value[1] = "Some"
                         THEN LazyIds(u.constants[i].value[2]) ELSE {}) :
                 i \in 1 .. Len(u.constants) }
    \cup UNION { {u.modules[i].name} \cup AttrTextIds(u.modules[i].attributes) :
                 i \in 1 .. Len(u.modules) }
    \cup AttrTextIds(u.file_attributes)
    \cup { u.typedefs[i].name : i \in 1 .. Len(u.typedefs) }
    \cup (IF u.module_use[1] = "Some" THEN {u.module_use[2]} ELSE {})

\* Some name that has to be text is not.
HasBadText(u) == \E id \in TextIds(u) : ~ValidUtf8(u.strings[id])

KnownFatalOp(u) == u.fatal[1] = "Some" => u.fatal[2].op \in FatalOps

\* C15: when a class, property, function, constant, module or typedef name,
\* an attribute's name, the module use or a LazyClass constant of the IR unit
\* is not valid UTF-8, ir_to_bc returns no unit; a unit it does return
\* carries every such name byte for byte; and it aborts for no other reason
\* than such a name or an unknown Fatal kind.
C15_NoUnitWithBadText ==
    /\ HasBadText(ir) => cPc # "done"
    /\ cPc = "done" =>
           /\ \A i \in 1 .. Len(ir.classes) :
                  /\ out.classes[i].name = ir.strings[ir.classes[i].name]
                  /\ \A k \in 1 .. Len(ir.classes[i].props) :
                         out.classes[i].props[k].name
                            = ir.strings[ir.classes[i].props[k].name]
           /\ \A i \in 1 .. Len(ir.functions) :
                  out.functions[i].name = ir.strings[ir.functions[i].name]
           /\ \A i \in 1 .. Len(ir.constants) :
                  out.constants[i].name = ir.strings[ir.constants[i].name]
           /\ \A i \in 1 .. Len(ir.modules) :
                  out.modules[i].name = ir.strings[ir.modules[i].name]
           /\ \A i \in 1 .. Len(ir.typedefs) :
                  out.typedefs[i].name = ir.strings[ir.typedefs[i].name]
           /\ \A i \in 1 .. Len(ir.file_attributes) :
                  out.file_attributes[i].name = ir.strings[ir.file_attributes[i].name]
    /\ cPc = "panic" => (HasBadText(ir) \/ ~KnownFatalOp(ir))

\* Witness of C15: the conversion aborted after finish(), on a unit whose
\* class and function names are text and one of whose later names is not.
C15_Witness ==
    /\ cPc = "panic"
    /\ Finalized
    /\ HasBadText(ir)
    /\ KnownFatalOp(ir)

(***************************************************************************)
(* Claims about the StringCache                                            *)
(***************************************************************************)

\* C16: under every interleaving of lookup_ffi_str calls each id is written
\* to the cache at most once, the entry written first stays in the cache
\* unchanged, every call returns the slice stored for its id, so all calls
\* for one id return the same slice, and the slice holds the bytes the
\* interner holds for the id.
C16_FirstWriterWins ==
    /\ \A p \in 1 .. Len(scWrites), q \in 1 .. Len(scWrites) :
           scWrites[p].id = scWrites[q].id => p = q
    /\ \A p \in 1 .. Len(scWrites) :
           /\ Present(scCache, scWrites[p].id)
           /\ Get(scCache, scWrites[p].id) = scWrites[p].slice
    /\ \A e \in scCache : e.slice.bytes = TvTable[e.id]
    /\ \A t \in Threads :
           tPc[t] = "done" =>
               /\ Present(scCache, tId[t])
               /\ tRet[t] = Get(scCache, tId[t])
               /\ tRet[t].bytes = TvTable[tId[t]]
    /\ \A t \in Threads, u \in Threads :
           (tPc[t] = "done" /\ tPc[u] = "done" /\ tId[t] = tId[u]) => tRet[t] = tRet[u]

\* Witness of C16: two threads have called lookup_ffi_str for the same id,
\* and both have returned the one slice written for it.
C16_Witness ==
    /\ \A t \in Threads : tPc[t] = "done" /\ tId[t] = 3
    /\ tRet[1] = tRet[2] /\ tRet[1] # NoSlice
    /\ Len(scWrites) = 1

(***************************************************************************)
(* Claims about AdataId                                                    *)
(***************************************************************************)

HasPrefixA(t) == Len(t) >= 2 /\ t[1] = 65 /\ t[2] = 95

Remainder(t) == SubSeq(t, 3, Len(t))

\* A decimal number as Rust's integer syntax has it: digits, after at most
\* one plus sign.
Unsigned(r) == IF r # <<>> /\ r[1] = 43 THEN Tail(r) ELSE r

Numeric(r) == Unsigned(r) # <<>> /\ \A i \in 1 .. Len(Unsigned(r)) : IsDigit(Unsigned(r)[i])

RECURSIVE StripZeros(_)
StripZeros(ds) == IF Len(ds) > 1 /\ ds[1] = 48 THEN StripZeros(Tail(ds)) ELSE ds

\* The digits of u32::MAX, 4294967295
MaxDigits == <<52, 50, 57, 52, 57, 54, 55, 50, 57, 53>>

\* The first place where two digit texts of one length differ decides.
DigitsAbove(ds, limit) ==
    \E i \in 1 .. Len(ds) :
        /\ ds[i] > limit[i]
        /\ \A j \in 1 .. i - 1 : ds[j] = limit[j]

OutOfRange(r) ==
    LET ds == StripZeros(Unsigned(r))
    IN  \/ Len(ds) > Len(MaxDigits)
        \/ Len(ds) = Len(MaxDigits) /\ DigitsAbove(ds, MaxDigits)

Malformed(t) ==
    \/ ~HasPrefixA(t)
    \/ Remainder(t) = <<>>
    \/ ~Numeric(Remainder(t))
    \/ OutOfRange(Remainder(t))

\* C19: for every u32 id n, parsing the text that formatting n gives ("A_"
\* and n in decimal) returns n; parsing a text with no "A_" prefix, or with
\* an empty, non-numeric or out-of-range remainder returns an error and no
\* id, and every other text parses to the id its digits spell.
C19_AdataIdRoundTrip ==
    /\ aPc \in {"formatted", "round_trip"} =>
           /\ HasPrefixA(aText)
           /\ Remainder(aText) = StripZeros(Remainder(aText))
           /\ ~Malformed(aText)
    /\ aPc = "round_trip" => aOut = <<"Ok", aId>>
    /\ aPc = "parsed" =>
           IF Malformed(aText) THEN aOut[1] # "Ok"
           ELSE /\ aOut[1] = "Ok"
                /\ u32_fmt(aOut[2]) = StripZeros(Unsigned(Remainder(aText)))

\* Witness of C19: an id above 2^31 has been formatted to ten digits and
\* parsed back.
C19_Witness ==
    /\ aPc = "round_trip"
    /\ aId.hi >= HalfSign
    /\ Len(aText) = 12
    /\ aOut[1] = "Ok"

(***************************************************************************)
(* Claims about the operand decoders                                       *)
(***************************************************************************)

\* The decoder of kind k has returned.
Decoded(k) == dKind = k /\ dPc = "done"

AllDigits(r) == r # <<>> /\ \A i \in 1 .. Len(r) : IsDigit(r[i])

\* _N with N a decimal number of the u32 range
SlotToken(t) ==
    /\ t.kind = "Identifier"
    /\ t.bytes[1] = 95
    /\ AllDigits(Tail(t.bytes))
    /\ ~OutOfRange(Tail(t.bytes))

\* C17: decoding a Local from $name gives the slot the local table maps the
\* name to, and an unresolved-local parse error when the table has no such
\* name; from _N it gives slot N whatever the table holds, also when N is
\* beyond the declared locals; each of these consumes exactly one token, and
\* the local table is never modified.
C17_LocalDecoded ==
    /\ dKind = "Local" => decl_map = LocalTable
    /\ Decoded("Local") /\ lexToks # <<>> =>
        LET t == lexToks[1]
        IN  /\ t.kind = "Variable" /\ t.bytes \in DOMAIN LocalTable =>
                   dOut = Ok(<<"Local", LocalTable[t.bytes]>>) /\ lexPos = 1
            /\ t.kind = "Variable" /\ ValidUtf8(t.bytes) /\ t.bytes \notin DOMAIN LocalTable =>
                   /\ dOut[1] = "Err"
                   /\ dOut[2].what = "Unknown local var"
                   /\ dOut[2].token = Some(t)
                   /\ lexPos = 1
            /\ SlotToken(t) =>
                   /\ dOut[1] = "Ok"
                   /\ dOut[2][1] = "Local"
                   /\ u32_fmt(dOut[2][2]) = StripZeros(Tail(t.bytes))
                   /\ lexPos = 1

\* Witness of C17: _4294967295 was decoded to slot 4294967295 with two
\* locals declared, and the token after it was left in the stream.
C17_Witness ==
    /\ Decoded("Local")
    /\ Len(lexToks) = 2
    /\ SlotToken(lexToks[1])
    /\ dOut = Ok(<<"Local", U32Max>>)
    /\ lexPos = 1
    /\ Cardinality(DOMAIN decl_map) = 2

PayloadTags == {TagEC, TagEL, TagET, TagEI, TagPC, TagPL, TagPT, TagQT}

\* A literal's text written back as the literal: quoted, with a newline as
\* \n and a backslash as \\
RECURSIVE Escaped(_)
Escaped(bs) ==
    IF bs = <<>> THEN <<>>
    ELSE (CASE Head(bs) = 10 -> <<92, 110>>
            [] Head(bs) = 92 -> <<92, 92>>
            [] OTHER -> <<Head(bs)>>) \o Escaped(Tail(bs))

Quoted(bs) == <<34>> \o Escaped(bs) \o <<34>>

\* The digits of a signed number token
SignedDigits(bs) == IF bs # <<>> /\ bs[1] \in {43, 45} THEN Tail(bs) ELSE bs

\* The token t spells the payload p of a member key with the tag `tag`.
PayloadOf(tag, t, p) ==
    CASE tag \in {TagEC, TagPC} ->
           /\ t.kind = "Number" /\ AllDigits(t.bytes) /\ ~OutOfRange(t.bytes)
           /\ p[1] = "StackIndex" /\ u32_fmt(p[2]) = StripZeros(t.bytes)
      [] tag \in {TagEL, TagPL} ->
           \/ /\ t.kind = "Variable" /\ t.bytes \in DOMAIN LocalTable
              /\ p = <<"Local", LocalTable[t.bytes]>>
           \/ /\ SlotToken(t)
              /\ p[1] = "Local" /\ u32_fmt(p[2]) = StripZeros(Tail(t.bytes))
      [] tag = TagET ->
           t.kind = "StrLiteral" /\ p[1] = "Str" /\ Quoted(p[2]) = t.bytes
      [] tag = TagEI ->
           /\ t.kind = "Number" /\ AllDigits(SignedDigits(t.bytes))
           /\ p[1] = "Int" /\ p[2].digits = StripZeros(SignedDigits(t.bytes))
           /\ p[2].neg = (t.bytes[1] = 45 /\ p[2].digits # <<48>>)
      [] tag \in {TagPT, TagQT} ->
           t.kind = "StrLiteral" /\ p[1] = "PropName" /\ Quoted(p[2]) = t.bytes

\* Every backslash of the text starts one of the escapes \\ and \n.
RECURSIVE EscapesKnown(_)
EscapesKnown(bs) ==
    \/ bs = <<>>
    \/ Head(bs) # 92 /\ EscapesKnown(Tail(bs))
    \/ Head(bs) = 92 /\ Len(bs) >= 2 /\ bs[2] \in {92, 110}
          /\ EscapesKnown(SubSeq(bs, 3, Len(bs)))

\* The token t spells a payload of the tag.
IsPayload(tag, t) ==
    CASE tag \in {TagEC, TagPC} ->
           t.kind = "Number" /\ AllDigits(t.bytes) /\ ~OutOfRange(t.bytes)
      [] tag \in {TagEL, TagPL} ->
           (t.kind = "Variable" /\ t.bytes \in DOMAIN LocalTable) \/ SlotToken(t)
      [] tag \in {TagET, TagPT, TagQT} ->
           /\ t.kind = "StrLiteral" /\ Len(t.bytes) >= 2
           /\ t.bytes[1] = 34 /\ t.bytes[Len(t.bytes)] = 34
           /\ EscapesKnown(SubSeq(t.bytes, 2, Len(t.bytes) - 1))
      [] tag = TagEI ->
           t.kind = "Number" /\ AllDigits(SignedDigits(t.bytes)) /\ Len(t.bytes) < 19

\* The stream starts with tag : payload operator.
WellFormedKey ==
    /\ Len(lexToks) >= 4
    /\ lexToks[1].kind = "Identifier" /\ lexToks[1].bytes \in PayloadTags
    /\ lexToks[2].kind = "Colon"
    /\ IsPayload(lexToks[1].bytes, lexToks[3])
    /\ lexToks[4].kind = "Identifier" /\ lexToks[4].bytes \in ReadonlyOps

\* C18: the first token of a MemberKey selects the variant among EC EL ET EI
\* PC PL PT QT and W, by its exact letters, and any other first token is a
\* parse error; every variant but W then takes a colon, its payload and a
\* read-only operator, in this order, and the result carries the tag, that
\* payload and that operator; W takes its own token only and carries nothing.
C18_MemberKeyDecoded ==
    Decoded("MemberKey") =>
        /\ lexToks = <<>> => dOut[1] = "Err"
        /\ lexToks # <<>> =>
            LET t == lexToks[1]
            IN  IF t.kind = "Identifier" /\ t.bytes = TagW
                  THEN dOut = Ok(MemberKey_W) /\ lexPos = 1
                ELSE IF t.kind = "Identifier" /\ t.bytes \in PayloadTags
                  THEN /\ WellFormedKey => dOut[1] = "Ok"
                       /\ dOut[1] = "Ok" =>
                            /\ WellFormedKey
                            /\ lexPos = 4
                            /\ dOut[2][1] = "MemberKey"
                            /\ dOut[2][2].tag = t.bytes
                            /\ PayloadOf(t.bytes, lexToks[3], dOut[2][2].payload)
                            /\ dOut[2][2].op = <<"ReadonlyOp", lexToks[4].bytes>>
                ELSE dOut[1] = "Err" /\ dOut[2].token = Some(t)

\* Witness of C18: EC:5 Any was decoded to EC with stack index 5 and the
\* operator Any, and the token after it was left in the stream.
C18_Witness ==
    /\ Decoded("MemberKey")
    /\ Len(lexToks) = 5
    /\ lexToks[1].bytes = TagEC /\ lexToks[3].bytes = <<53>>
    /\ dOut = Ok(MemberKey(TagEC, <<"StackIndex", [hi |-> 0, lo |-> 5]>>, <<"ReadonlyOp", <<65, 110, 121>>>>))
    /\ lexPos = 4

\* The token the decoder read last, or the end of the input
LastRead == IF lexPos >= 1 /\ lexPos <= Len(lexToks) THEN lexToks[lexPos] ELSE EofToken(lexToks)

\* C20: every decode that fails returns a parse error that carries the
\* offending token and its position: the token read last, or the end of the
\* input when the stream ran out; a _N whose suffix is no number and a token
\* whose bytes are no UTF-8 text are among the failures.
C20_ErrorsCarryToken ==
    dPc = "done" /\ dOut[1] = "Err" =>
        /\ dOut[2].token # None
        /\ dOut[2].token[2] \in {LastRead, EofToken(lexToks)}

(***************************************************************************)
(* Claims about the order of FunctionName                                  *)
(***************************************************************************)

\* The result of the comparison with its sides exchanged
Reverse(o) == CASE o = "Less" -> "Greater" [] o = "Greater" -> "Less" [] OTHER -> "Equal"

\* C22: FunctionName::cmp is a total order that agrees with equality, for
\* every interning history: the comparison made last returned Equal exactly
\* when the two names match up to ASCII case, the exchanged comparison gives
\* the reverse, and with every third name c it is transitive: a < b and
\* b < c give a < c, and a == b and b < c give a < c.
C22_CmpTotalOrder ==
    lastCmp # NoCmp =>
        LET a == lastCmp.a
            b == lastCmp.b
        IN  /\ (lastCmp.ord = "Equal") <=> SameUpToCase(as_str(a), as_str(b))
            /\ FunctionName_cmp(b, a) = Reverse(lastCmp.ord)
            /\ \A c \in Handles :
                 /\ lastCmp.ord = "Less" /\ FunctionName_cmp(b, c) = "Less" =>
                        FunctionName_cmp(a, c) = "Less"
                 /\ lastCmp.ord = "Equal" /\ FunctionName_cmp(b, c) = "Less" =>
                        FunctionName_cmp(a, c) = "Less"

(***************************************************************************)
(* More claims about the operand decoders                                  *)
(***************************************************************************)

\* An underscore followed by a decimal number
SlotForm(bs) == bs[1] = 95 /\ AllDigits(Tail(bs))

\* C23: a Local is decoded from the two forms of the grammar only: an
\* identifier that is not an underscore followed by a decimal slot number,
\* such as x3, is rejected with a parse error and gives no local slot.
C23_OnlyGrammarForms ==
    Decoded("Local") /\ lexToks # <<>> =>
        (lexToks[1].kind = "Identifier" /\ ~SlotForm(lexToks[1].bytes) => dOut[1] = "Err")

\* The token at place i is the identifier s.
IdentAt(i, s) == Len(lexToks) >= i /\ lexToks[i].kind = "Identifier" /\ lexToks[i].bytes = s

ColonAt(i) == Len(lexToks) >= i /\ lexToks[i].kind = "Colon"

\* What the Local decoder gives after the first p tokens
LocalAt(p) == assemble_local(lexToks, p, decl_map, debug_assertions)

\* The first token is an iterator index.
IndexFirst ==
    /\ lexToks # <<>> /\ lexToks[1].kind = "Number"
    /\ AllDigits(lexToks[1].bytes) /\ ~OutOfRange(lexToks[1].bytes)

\* The place of the V token: after NK, or after K, a colon and a local
PlaceOfV == IF IdentAt(2, KwNK) THEN 3 ELSE 5

\* The key is NK, or K, a colon and a local.
KeyGiven == IdentAt(2, KwNK) \/ (IdentAt(2, KwK) /\ ColonAt(3) /\ IsOk(LocalAt(3).res))

\* The value is V, a colon and a local.
ValueGiven ==
    IdentAt(PlaceOfV, KwV) /\ ColonAt(PlaceOfV + 1) /\ IsOk(LocalAt(PlaceOfV + 1).res)

\* C24: an IterArgs is an iterator index, then NK (the key local is the
\* invalid-local marker and no more key token is taken) or K, a colon and a
\* local (the key local is that local), then V, a colon and the value local;
\* another token in the key's place, or anything but V and a colon before
\* the value local, is a parse error.
C24_IterArgsDecoded ==
    Decoded("IterArgs") =>
        /\ dOut[1] = "Ok" <=> (IndexFirst /\ KeyGiven /\ ValueGiven)
        /\ dOut[1] = "Ok" =>
             /\ dOut[2][1] = "IterArgs"
             /\ u32_fmt(dOut[2][2].iter_id) = StripZeros(lexToks[1].bytes)
             /\ dOut[2][2].key_id =
                    IF IdentAt(2, KwNK) THEN Local_INVALID ELSE LocalAt(3).res[2]
             /\ dOut[2][2].val_id = LocalAt(PlaceOfV + 1).res[2]
             /\ lexPos = PlaceOfV + 2
        /\ IndexFirst /\ Len(lexToks) >= 2 /\ ~IdentAt(2, KwNK) /\ ~IdentAt(2, KwK) =>
             dOut[1] = "Err" /\ lexPos = 2
        /\ IndexFirst /\ KeyGiven /\ ~(IdentAt(PlaceOfV, KwV) /\ ColonAt(PlaceOfV + 1)) =>
             dOut[1] = "Err"

\* Witness of C24: 7 NK V:_3 was decoded to iterator 7 with the marker as
\* its key and slot 3 as its value, and the token after it was left.
C24_Witness ==
    /\ Decoded("IterArgs")
    /\ Len(lexToks) = 6
    /\ IdentAt(2, KwNK)
    /\ dOut = Ok(IterArgs([hi |-> 0, lo |-> 7], Local_INVALID, <<"Local", [hi |-> 0, lo |-> 3]>>))
    /\ lexPos = 5

\* A list decoder is called.
ListCall == dKind \in {"Labels", "Strs"}

\* The digits of a label token L<n> or DV<n>
LabelDigits(bs) == IF bs[1] = 76 THEN Tail(bs) ELSE SubSeq(bs, 3, Len(bs))

\* The token t spells an item of the list.
IsItem(t) ==
    IF dKind = "Labels"
      THEN /\ t.kind = "Identifier"
           /\ t.bytes[1] = 76 \/ (Len(t.bytes) >= 2 /\ t.bytes[1] = 68 /\ t.bytes[2] = 86)
           /\ AllDigits(LabelDigits(t.bytes)) /\ ~OutOfRange(LabelDigits(t.bytes))
      ELSE IsPayload(TagET, t)

\* The token t spells the item p.
ItemOf(t, p) ==
    IF dKind = "Labels"
      THEN p[1] = "Label" /\ u32_fmt(p[2]) = StripZeros(LabelDigits(t.bytes))
      ELSE PayloadOf(TagET, t, p)

\* The places of the > tokens after the first token
ClosingPlaces == { i \in 2 .. Len(lexToks) : lexToks[i].kind = "Gt" }

\* The place of the first of them
FirstClose == CHOOSE i \in ClosingPlaces : \A j \in ClosingPlaces : i <= j

\* The stream starts with <, items and >.
WellFormedList ==
    /\ lexToks # <<>> /\ lexToks[1].kind = "Lt"
    /\ ClosingPlaces # {}
    /\ \A i \in 2 .. FirstClose - 1 : IsItem(lexToks[i])

\* What holds of a list decoder in every state: in the loop it has pushed
\* the items of the tokens it has read, and when it has returned it has
\* returned the items between < and the first >, having read up to that >,
\* or else a parse error.
ListDecoded ==
    /\ ListCall /\ dPc = "loop" =>
         /\ lexPos = Len(dItems) + 1
         /\ \A i \in 1 .. Len(dItems) : ItemOf(lexToks[i + 1], dItems[i])
    /\ ListCall /\ dPc = "done" =>
         IF WellFormedList
           THEN /\ dOut = Ok(<<"Vector", dItems>>)
                /\ Len(dItems) = FirstClose - 2
                /\ \A i \in 1 .. Len(dItems) : ItemOf(lexToks[i + 1], dItems[i])
                /\ lexPos = FirstClose
           ELSE dOut[1] = "Err"

\* A step of a list decoder that stays in the loop takes one token.
ListStepConsumes ==
    ListCall /\ dPc = "loop" /\ dPc' = "loop" => lexPos' = lexPos + 1

\* C25: decoding a label list or a string list ends on every finite stream:
\* it returns the items between < and the first >, in token order (no item
\* for <>), having read those tokens and both brackets, or it fails with a
\* parse error when < is missing, an item is malformed or the input ends
\* before >; no turn of its loop leaves the cursor where it was.
C25_ListsTerminate ==
    /\ []ListDecoded
    /\ [][ListStepConsumes]_vars
    /\ (ListCall ~> dPc = "done")

\* Witness of C25: <L0 L12> was decoded to its two labels, and the token
\* after the > was left in the stream.
C25_Witness ==
    /\ dKind = "Labels" /\ dPc = "done"
    /\ Len(lexToks) = 5
    /\ dOut = Ok(<<"Vector", <<<<"Label", [hi |-> 0, lo |-> 0]>>, <<"Label", [hi |-> 0, lo |-> 12]>>>>>>)
    /\ lexPos = 4

\* What the payload decoder of the member key's tag gives after tag and colon
PayloadAt ==
    assemble_payload(lexToks[1].bytes, lexToks, 2, decl_map, debug_assertions)

\* The stream starts with a tag that has a payload, and a colon.
TagAndColon ==
    /\ lexToks # <<>> /\ lexToks[1].kind = "Identifier" /\ lexToks[1].bytes \in PayloadTags
    /\ ColonAt(2)

\* A decode that has returned gave an operand with every part, an error, or
\* a panic, and nothing in between.
WholeOrNothing ==
    dPc = "done" =>
        /\ dOut[1] \in {"Ok", "Err", "Panic"}
        /\ dKind = "MemberKey" /\ dOut[1] = "Ok" /\ dOut[2][2].tag # TagW =>
             /\ dOut[2][2].payload[1] \in {"StackIndex", "Local", "Str", "Int", "PropName"}
             /\ dOut[2][2].op[1] = "ReadonlyOp"
        /\ dKind = "IterArgs" /\ dOut[1] = "Ok" =>
             dOut[2][2].key_id[1] = "Local" /\ dOut[2][2].val_id[1] = "Local"

\* The failure of a nested decode is the failure of the decode around it.
NestedFailureReturned ==
    /\ Decoded("MemberKey") /\ TagAndColon =>
         /\ ~IsOk(PayloadAt.res) => dOut = PayloadAt.res /\ lexPos = PayloadAt.pos
         /\ IsOk(PayloadAt.res) /\ ~IsOk(assemble_readonly_op(lexToks, PayloadAt.pos).res) =>
                dOut = assemble_readonly_op(lexToks, PayloadAt.pos).res
    /\ Decoded("IterArgs") =>
         /\ ~IndexFirst => dOut = expect_and_get_number(lexToks, 0).res
         /\ IndexFirst /\ IdentAt(2, KwK) /\ ColonAt(3) /\ ~IsOk(LocalAt(3).res) =>
                dOut = LocalAt(3).res /\ lexPos = LocalAt(3).pos
         /\ IndexFirst /\ KeyGiven /\ IdentAt(PlaceOfV, KwV) /\ ColonAt(PlaceOfV + 1)
              /\ ~IsOk(LocalAt(PlaceOfV + 1).res) =>
                dOut = LocalAt(PlaceOfV + 1).res /\ lexPos = LocalAt(PlaceOfV + 1).pos

\* The cursor is within the stream, and an error that names a token names
\* the one read last or the end of the input, none before it.
CursorInStream ==
    /\ lexPos <= Len(lexToks)
    /\ dPc = "done" /\ dOut[1] = "Err" /\ dOut[2].token # None =>
         dOut[2].token[2].line >= lexPos

\* C21: when a decode nested in a MemberKey or an IterArgs decode fails (the
\* local of EL:$z or of K:$z), the decode around it fails with that error
\* and gives no operand, never one with a part missing; and on every path
\* the cursor only moves forward: no step moves it back, and no token
\* before it is read again.
C21_ErrorsPropagate ==
    /\ [](WholeOrNothing /\ NestedFailureReturned /\ CursorInStream)
    /\ [][lexPos' >= lexPos]_vars

\* Witness of C21: EL:$z Any failed with the error of its local, $z, after
\* three tokens.
C21_Witness ==
    /\ Decoded("MemberKey") /\ TagAndColon
    /\ lexToks[1].bytes = TagEL
    /\ Len(lexToks) >= 4
    /\ dOut[1] = "Err"
    /\ dOut[2].what = "Unknown local var"
    /\ dOut = LocalAt(2).res
    /\ lexPos = 3

====
